---- MODULE Spec2Model ----
(***************************************************************************)
(* A model of the FinnLang execution pipeline: lexer (lexer.rs), parser    *)
(* (parser.rs), tree-walking interpreter (interpreter.rs), the panic       *)
(* boundary run_finn_code (lib.rs) and the HTTP handler run_code           *)
(* (bin/server.rs).                                                        *)
(*                                                                         *)
(* Text is modelled as sequences of one-character strings, so that         *)
(* formatting, trimming and substring search are computed, not assumed.    *)
(* The recursive procedures of the interpreter and the parser are          *)
(* recursive operators that return the callee's final state together with  *)
(* its result; a panic is a result that every caller passes on unchanged   *)
(* (unwinding) until run_finn_code catches it.                             *)
(***************************************************************************)
EXTENDS Integers, Sequences, FiniteSets, TLC

VARIABLES
    program,    \* Interpreter::run: the Vec<Stmt> being executed
    idx,        \* Interpreter::run: number of top-level statements consumed by the for loop
    interp,     \* the Interpreter: env, functions, output_buffer (and the history fields)
    output,     \* Interpreter::run: the local `output` string
    pc,         \* position of the pipeline
    result,     \* what catch_unwind returned, then what run_finn_code returned
    source,     \* the source text given to Lexer::new
    lexer,      \* the Lexer of a client that calls next_token itself
    token,      \* the token its last call returned
    parser,     \* the Parser: its lexer and its current token
    stmts,      \* Parser::parse: the local `stmts`
    response,   \* run_code: the RunResponse
    runs        \* history: the calls of run_finn_code that have returned

vars == <<program, idx, interp, output, pc, result, source, lexer, token, parser, stmts,
          response, runs>>

----------------------------------------------------------------------------
(* Bounds of the model *)

\* Loop iterations and nested calls explored before an evaluation counts as
\* not terminating.
MaxFuel == 4

\* Number of statements that follow the function definitions in a program.
MaxProgLen == 2

\* Length of the generated inputs of the lexer.
MaxLexLen == 3

\* Calls of next_token after the end of the input was reached.
MaxExtraCalls == 2

\* Number of statements in the generated sources of the pipeline.
MaxSrcStmts == 2

\* Length of the generated token streams of the parser.
MaxTokens == 4

\* Number of statements that follow the first let in a print program.
MaxPrints == 3

\* Number of calls of run_finn_code that follow the first.
MaxRuns == 2

----------------------------------------------------------------------------
(* Text *)

NL == "\n"

IsWhitespace(c) == c \in {" ", "\n", "\t", "\r"}

\* str::trim_end: drop the trailing whitespace characters
RECURSIVE TrimEnd(_)
TrimEnd(s) ==
    IF s # <<>> /\ IsWhitespace(s[Len(s)]) THEN TrimEnd(SubSeq(s, 1, Len(s) - 1)) ELSE s

\* str::contains(pat)
Contains(s, pat) ==
    \E i \in 1..(Len(s) - Len(pat) + 1) : SubSeq(s, i, i + Len(pat) - 1) = pat

DigitChar(d) == <<"0", "1", "2", "3", "4", "5", "6", "7", "8", "9">>[d + 1]

RECURSIVE NatToStr(_)
NatToStr(n) == IF n < 10 THEN <<DigitChar(n)>> ELSE NatToStr(n \div 10) \o <<DigitChar(n % 10)>>

\* Display for i64
IntToStr(n) == IF n < 0 THEN <<"-">> \o NatToStr(-n) ELSE NatToStr(n)

----------------------------------------------------------------------------
(* Runtime values: interpreter.rs, enum Value *)

IntV(n) == [k |-> "Int", v |-> n]
BoolV(b) == [k |-> "Bool", v |-> b]
StrV(s) == [k |-> "Str", v |-> s]
ArrayV(a) == [k |-> "Array", v |-> a]

RECURSIVE Gcd(_, _)
Gcd(a, b) == IF b = 0 THEN a ELSE Gcd(b, a % b)

Abs(n) == IF n < 0 THEN -n ELSE n

\* A double is modelled by the rational it denotes, in lowest terms.  The
\* literals of the model are dyadic, for which f64 arithmetic is exact.
DoubleV(n, d) ==
    LET g == Gcd(Abs(n), Abs(d))
        s == IF d < 0 THEN -1 ELSE 1
    IN  [k |-> "Double", v |-> <<(s * n) \div g, (s * d) \div g>>]

\* Option::None, for Option<Value>, Option<String>, Option<Expr>, Option<Box<Stmt>>
None == [k |-> "None"]
IsNone(o) == o.k = "None"
Some(x) == [k |-> "Some", v |-> x]

\* Fraction digits of r/d (0 <= r < d) for a terminating expansion
RECURSIVE FracDigits(_, _, _)
FracDigits(r, d, n) ==
    IF r = 0 \/ n = 0 THEN <<>>
    ELSE <<DigitChar((r * 10) \div d)>> \o FracDigits((r * 10) % d, d, n - 1)

\* Display for f64 of the value n/d
DoubleToStr(n, d) ==
    LET a == Abs(n)
        whole == NatToStr(a \div d)
        frac == FracDigits(a % d, d, 17)
    IN  (IF n < 0 THEN <<"-">> ELSE <<>>) \o whole
            \o (IF frac = <<>> THEN <<>> ELSE <<".">> \o frac)

RECURSIVE to_string(_)
RECURSIVE JoinElements(_)
\* elements.join(", ") of the elements' to_string()
JoinElements(arr) ==
    IF arr = <<>> THEN <<>>
    ELSE IF Len(arr) = 1 THEN to_string(arr[1])
    ELSE to_string(arr[1]) \o <<",", " ">> \o JoinElements(Tail(arr))

\* impl fmt::Display for Value
to_string(val) ==
    CASE val.k = "Int" -> IntToStr(val.v)
      [] val.k = "Bool" -> IF val.v THEN <<"t", "r", "u", "e">> ELSE <<"f", "a", "l", "s", "e">>
      [] val.k = "Str" -> val.v
      [] val.k = "Double" -> DoubleToStr(val.v[1], val.v[2])
      [] val.k = "Array" -> <<"[">> \o JoinElements(val.v) \o <<"]">>

\* An equality that compares arrays by their length alone
ValueEq_Shallow(l, r) ==
    /\ l.k = r.k
    /\ IF l.k = "Array" THEN Len(l.v) = Len(r.v) ELSE l.v = r.v

\* derive(PartialEq) for Value
ValueEq(l, r) == l.k = r.k /\ l.v = r.v

----------------------------------------------------------------------------
(* Abstract syntax: ast.rs, enum Expr and enum Stmt.  Names are text. *)

Number(n) == [e |-> "Number", n |-> n]
Bool(b) == [e |-> "Bool", b |-> b]
StrLiteral(s) == [e |-> "StrLiteral", s |-> s]
Double(n, d) == [e |-> "Double", n |-> n, d |-> d]
Var(name) == [e |-> "Var", name |-> name]
FunctionCall(name, args) == [e |-> "FunctionCall", name |-> name, args |-> args]
ArrayLiteral(elements) == [e |-> "ArrayLiteral", elements |-> elements]
Index(a, i) == [e |-> "Index", a |-> a, i |-> i]
AssignIndex(a, i, x) == [e |-> "AssignIndex", a |-> a, i |-> i, x |-> x]
Binary(op, l, r) == [e |-> op, l |-> l, r |-> r]
Unary(op, x) == [e |-> op, x |-> x]

\* The binary operators whose operands are both evaluated before the match
StrictBinaryOps ==
    {"Add", "Sub", "Mul", "Div", "Mod", "Eq", "Neq",
     "LessThan", "GreaterThan", "LessEqual", "GreaterEqual"}

Let(ty, name, expr) == [s |-> "Let", ty |-> ty, name |-> name, expr |-> expr]
Assign(name, expr) == [s |-> "Assign", name |-> name, expr |-> expr]
PrintS(expr) == [s |-> "Print", expr |-> expr]
While(cond, body) == [s |-> "While", cond |-> cond, body |-> body]
For(init, cond, update, body) ==
    [s |-> "For", init |-> init, cond |-> cond, update |-> update, body |-> body]
If(cond, if_block, elifs, else_block) ==
    [s |-> "If", cond |-> cond, if_block |-> if_block, elifs |-> elifs,
     else_block |-> else_block]
FunctionDefS(name, params, return_type, body) ==
    [s |-> "FunctionDef", name |-> name, params |-> params,
     return_type |-> return_type, body |-> body]
Return(expr_opt) == [s |-> "Return", expr |-> expr_opt]
ExprStmt(expr) == [s |-> "ExprStmt", expr |-> expr]

----------------------------------------------------------------------------
(* The interpreter: interpreter.rs *)

\* ControlFlow
CfNone == [k |-> "CfNone"]
CfReturn(v) == [k |-> "Return", v |-> v]

\* Interpreter::new.  env, functions and output_buffer are the fields of the
\* struct.  act, log and nact are history: the identity of this activation,
\* the events executed so far in the whole run, and the number of
\* activations created so far.
NewInterpreter ==
    [env |-> <<>>, functions |-> <<>>, output_buffer |-> <<>>,
     act |-> 0, log |-> <<>>, nact |-> 0]

\* HashMap::insert
Insert(map, key, val) ==
    [n \in (DOMAIN map) \cup {key} |-> IF n = key THEN val ELSE map[n]]

\* One event of the history
Ev(I, ev, arg) ==
    [I EXCEPT !.log = Append(@, [act |-> I.act, ev |-> ev, arg |-> arg])]

\* What a call of eval or execute_with_control leaves: the interpreter, and
\* either its return value (val for eval; out and ctl for
\* execute_with_control) or an abort: a panic with its message, "diverge" for
\* a loop that never ends, or "fuel" when the evaluation used up MaxFuel.
Value(I, val) ==
    [I |-> I, val |-> val, out |-> None, ctl |-> CfNone, abort |-> "none", msg |-> <<>>]
Done(I, out, ctl) ==
    [I |-> I, val |-> None, out |-> out, ctl |-> ctl, abort |-> "none", msg |-> <<>>]
Panic(I, msg) ==
    [I |-> I, val |-> None, out |-> None, ctl |-> CfNone, abort |-> "panic", msg |-> msg]
Diverge(I) ==
    [I |-> I, val |-> None, out |-> None, ctl |-> CfNone, abort |-> "diverge", msg |-> <<>>]
OutOfFuel(I) ==
    [I |-> I, val |-> None, out |-> None, ctl |-> CfNone, abort |-> "fuel", msg |-> <<>>]
\* An iteration of a loop that leaves the variables and the functions as it
\* found them is followed by the same iteration, for ever: the condition and
\* the body read nothing else.
SameMemory(I, J) == I.env = J.env /\ I.functions = J.functions
Aborted(r) == r.abort # "none"

\* i64 `/` truncates towards zero and `%` takes the sign of the dividend
TruncDiv(l, r) ==
    IF (l < 0) = (r < 0) THEN Abs(l) \div Abs(r) ELSE -(Abs(l) \div Abs(r))
TruncRem(l, r) == l - r * TruncDiv(l, r)

\* A match arm's outcome: a value or a panic message
Ok(val) == [ok |-> TRUE, val |-> val]
Fail(msg) == [ok |-> FALSE, msg |-> msg]

BothInt(l, r) == l.k = "Int" /\ r.k = "Int"
BothDouble(l, r) == l.k = "Double" /\ r.k = "Double"

\* Expr::Add without the two arms that stringify the operand next to a string
AddValues_NoCoerce(l, r) ==
    CASE BothInt(l, r) -> Ok(IntV(l.v + r.v))
      [] BothDouble(l, r) -> Ok(DoubleV(l.v[1] * r.v[2] + r.v[1] * l.v[2], l.v[2] * r.v[2]))
      [] l.k = "Str" /\ r.k = "Str" -> Ok(StrV(l.v \o r.v))
      [] OTHER -> Fail(<<"U", "n", "s", "u", "p", "p", "o", "r", "t", "e", "d", " ", "a", "d", "d", "i", "t", "i", "o", "n", " ", "t", "y", "p", "e", "s">>)

\* Expr::Add: the match on (left_val, right_val)
AddValues(l, r) ==
    CASE BothInt(l, r) -> Ok(IntV(l.v + r.v))
      [] BothDouble(l, r) -> Ok(DoubleV(l.v[1] * r.v[2] + r.v[1] * l.v[2], l.v[2] * r.v[2]))
      [] l.k = "Str" /\ r.k = "Str" -> Ok(StrV(l.v \o r.v))
      [] l.k = "Str" /\ r.k # "Str" -> Ok(StrV(l.v \o to_string(r)))
      [] l.k # "Str" /\ r.k = "Str" -> Ok(StrV(to_string(l) \o r.v))
      [] OTHER -> Fail(<<"U", "n", "s", "u", "p", "p", "o", "r", "t", "e", "d", " ", "a", "d", "d", "i", "t", "i", "o", "n", " ", "t", "y", "p", "e", "s">>)

\* Expr::Sub
SubValues(l, r) ==
    CASE BothInt(l, r) -> Ok(IntV(l.v - r.v))
      [] BothDouble(l, r) -> Ok(DoubleV(l.v[1] * r.v[2] - r.v[1] * l.v[2], l.v[2] * r.v[2]))
      [] OTHER -> Fail(<<"U", "n", "s", "u", "p", "p", "o", "r", "t", "e", "d", " ", "s", "u", "b", "t", "r", "a", "c", "t", "i", "o", "n", " ", "t", "y", "p", "e", "s">>)

\* Expr::Mul
MulValues(l, r) ==
    CASE BothInt(l, r) -> Ok(IntV(l.v * r.v))
      [] BothDouble(l, r) -> Ok(DoubleV(l.v[1] * r.v[1], l.v[2] * r.v[2]))
      [] OTHER -> Fail(<<"U", "n", "s", "u", "p", "p", "o", "r", "t", "e", "d", " ", "m", "u", "l", "t", "i", "p", "l", "i", "c", "a", "t", "i", "o", "n", " ", "t", "y", "p", "e", "s">>)

\* Expr::Div without its checks: the integer division panics in the
\* division itself and the division of doubles yields an infinity
DivValues_Unchecked(l, r) ==
    CASE BothInt(l, r) ->
            IF r.v = 0 THEN Fail(<<"a", "t", "t", "e", "m", "p", "t", " ", "t", "o", " ", "d", "i", "v", "i", "d", "e", " ", "b", "y", " ", "z", "e", "r", "o">>)
            ELSE Ok(IntV(TruncDiv(l.v, r.v)))
      [] BothDouble(l, r) ->
            IF r.v[1] = 0 THEN Ok(StrV(<<"i", "n", "f">>))
            ELSE Ok(DoubleV(l.v[1] * r.v[2], l.v[2] * r.v[1]))
      [] OTHER -> Fail(<<"U", "n", "s", "u", "p", "p", "o", "r", "t", "e", "d", " ", "d", "i", "v", "i", "s", "i", "o", "n", " ", "t", "y", "p", "e", "s">>)

\* Expr::Div, with its divide-by-zero checks
DivValues(l, r) ==
    CASE BothInt(l, r) ->
            IF r.v = 0 THEN Fail(<<"D", "i", "v", "i", "s", "i", "o", "n", " ", "b", "y", " ", "z", "e", "r", "o">>) ELSE Ok(IntV(TruncDiv(l.v, r.v)))
      [] BothDouble(l, r) ->
            IF r.v[1] = 0 THEN Fail(<<"D", "i", "v", "i", "s", "i", "o", "n", " ", "b", "y", " ", "z", "e", "r", "o">>)
            ELSE Ok(DoubleV(l.v[1] * r.v[2], l.v[2] * r.v[1]))
      [] OTHER -> Fail(<<"U", "n", "s", "u", "p", "p", "o", "r", "t", "e", "d", " ", "d", "i", "v", "i", "s", "i", "o", "n", " ", "t", "y", "p", "e", "s">>)

\* Expr::Mod, with its zero check
ModValues(l, r) ==
    CASE BothInt(l, r) ->
            IF r.v = 0 THEN Fail(<<"M", "o", "d", "u", "l", "o", " ", "b", "y", " ", "z", "e", "r", "o">>) ELSE Ok(IntV(TruncRem(l.v, r.v)))
      [] OTHER -> Fail(<<"U", "n", "s", "u", "p", "p", "o", "r", "t", "e", "d", " ", "m", "o", "d", "u", "l", "o", " ", "t", "y", "p", "e", "s">>)

\* l < r on doubles (denominators are positive)
DoubleLess(l, r) == l.v[1] * r.v[2] < r.v[1] * l.v[2]

\* Expr::LessThan, GreaterThan, LessEqual, GreaterEqual
CompareValues(op, l, r) ==
    LET lt == IF BothInt(l, r) THEN l.v < r.v ELSE DoubleLess(l, r)
        gt == IF BothInt(l, r) THEN r.v < l.v ELSE DoubleLess(r, l)
    IN  IF BothInt(l, r) \/ BothDouble(l, r)
        THEN CASE op = "LessThan" -> Ok(BoolV(lt))
               [] op = "GreaterThan" -> Ok(BoolV(gt))
               [] op = "LessEqual" -> Ok(BoolV(~gt))
               [] op = "GreaterEqual" -> Ok(BoolV(~lt))
        ELSE CASE op = "LessThan" -> Fail(<<"U", "n", "s", "u", "p", "p", "o", "r", "t", "e", "d", " ", "t", "y", "p", "e", "s", " ", "f", "o", "r", " ", "L", "e", "s", "s", "T", "h", "a", "n", " ", "c", "o", "m", "p", "a", "r", "i", "s", "o", "n">>)
               [] op = "GreaterThan" -> Fail(<<"U", "n", "s", "u", "p", "p", "o", "r", "t", "e", "d", " ", "t", "y", "p", "e", "s", " ", "f", "o", "r", " ", "G", "r", "e", "a", "t", "e", "r", "T", "h", "a", "n", " ", "c", "o", "m", "p", "a", "r", "i", "s", "o", "n">>)
               [] op = "LessEqual" -> Fail(<<"U", "n", "s", "u", "p", "p", "o", "r", "t", "e", "d", " ", "t", "y", "p", "e", "s", " ", "f", "o", "r", " ", "L", "e", "s", "s", "E", "q", "u", "a", "l", " ", "c", "o", "m", "p", "a", "r", "i", "s", "o", "n">>)
               [] op = "GreaterEqual" -> Fail(<<"U", "n", "s", "u", "p", "p", "o", "r", "t", "e", "d", " ", "t", "y", "p", "e", "s", " ", "f", "o", "r", " ", "G", "r", "e", "a", "t", "e", "r", "E", "q", "u", "a", "l", " ", "c", "o", "m", "p", "a", "r", "i", "s", "o", "n">>)

\* The match of a binary operator on its two evaluated operands
ApplyBinary(op, l, r) ==
    CASE op = "Add" -> AddValues(l, r)
      [] op = "Sub" -> SubValues(l, r)
      [] op = "Mul" -> MulValues(l, r)
      [] op = "Div" -> DivValues(l, r)
      [] op = "Mod" -> ModValues(l, r)
      [] op = "Eq" -> Ok(BoolV(ValueEq(l, r)))
      [] op = "Neq" -> Ok(BoolV(~ValueEq(l, r)))
      [] OTHER -> CompareValues(op, l, r)

\* Expr::Neg
NegValue(val) ==
    CASE val.k = "Int" -> Ok(IntV(-val.v))
      [] val.k = "Double" -> Ok(DoubleV(-val.v[1], val.v[2]))
      [] OTHER -> Fail(<<"U", "n", "s", "u", "p", "p", "o", "r", "t", "e", "d", " ", "n", "e", "g", "a", "t", "i", "o", "n", " ", "t", "y", "p", "e">>)

\* Expr::Index: the match on (array, index); `i as usize` of a negative i is
\* beyond every length
IndexValue(array, index) ==
    IF array.k = "Array" /\ index.k = "Int"
    THEN IF index.v >= 0 /\ index.v < Len(array.v) THEN Ok(array.v[index.v + 1])
         ELSE Ok(StrV(<<"I", "n", "d", "e", "x", " ", "o", "u", "t", " ", "o", "f", " ", "b", "o", "u", "n", "d", "s">>))
    ELSE Fail(<<"I", "n", "v", "a", "l", "i", "d", " ", "i", "n", "d", "e", "x", "i", "n", "g", " ", "o", "p", "e", "r", "a", "t", "i", "o", "n">>)

\* An AssignIndex whose result is the array as it was
AssignIndexValue_Unchanged(array_val, index, new_val) ==
    IF array_val.k = "Array" /\ index.k = "Int"
    THEN IF index.v >= 0 /\ index.v < Len(array_val.v)
         THEN Ok(array_val)
         ELSE Fail(<<"I", "n", "d", "e", "x", " ", "o", "u", "t", " ", "o", "f", " ", "b", "o", "u", "n", "d", "s">>)
    ELSE Fail(<<"I", "n", "v", "a", "l", "i", "d", " ", "a", "r", "r", "a", "y", " ", "a", "s", "s", "i", "g", "n", "m", "e", "n", "t">>)

\* Expr::AssignIndex: the result is the updated copy of the array
AssignIndexValue(array_val, index, new_val) ==
    IF array_val.k = "Array" /\ index.k = "Int"
    THEN IF index.v >= 0 /\ index.v < Len(array_val.v)
         THEN Ok(ArrayV([array_val.v EXCEPT ![index.v + 1] = new_val]))
         ELSE Fail(<<"I", "n", "d", "e", "x", " ", "o", "u", "t", " ", "o", "f", " ", "b", "o", "u", "n", "d", "s">>)
    ELSE Fail(<<"I", "n", "v", "a", "l", "i", "d", " ", "a", "r", "r", "a", "y", " ", "a", "s", "s", "i", "g", "n", "m", "e", "n", "t">>)

\* The test of the argument count that lets a call with too many arguments
\* through
ArityMismatch_TooFew(args, params) == Len(args) < Len(params)

\* if args.len() != func_def.params.len()
ArityMismatch(args, params) == Len(args) # Len(params)

\* The message of the argument-count panic
ArityMessage(name, nparams, nargs) ==
    <<"F", "u", "n", "c", "t", "i", "o", "n", " ">> \o name \o <<" ", "e", "x", "p", "e", "c", "t", "s", " ">> \o NatToStr(nparams)
        \o <<" ", "a", "r", "g", "u", "m", "e", "n", "t", "s", ",", " ", "g", "o", "t", " ">> \o NatToStr(nargs)

\* if output.is_empty() { None } else { Some(output) }
NonEmpty(out) == IF out = <<>> THEN None ELSE Some(out)

\* Stmt::Assign after the evaluation of the expression, with the name
\* declared by the assignment when it is unbound
AssignTo_Declare(I, name, value) ==
    Done(Ev([I EXCEPT !.env = Insert(@, name, value)], "Assign", None), None, CfNone)

\* Stmt::Assign after the evaluation of the expression: the value replaces
\* that of a declared name, and an undeclared name is a panic
AssignTo(I, name, value) ==
    IF name \in DOMAIN I.env
    THEN Done(Ev([I EXCEPT !.env = Insert(@, name, value)], "Assign", None), None, CfNone)
    ELSE Panic(I, <<"C", "a", "n", "n", "o", "t", " ", "a", "s", "s", "i", "g", "n", " ", "t", "o", " ", "u", "n", "d", "e", "c", "l", "a", "r", "e", "d", " ", "v", "a", "r", "i", "a", "b", "l", "e", ":", " ">> \o name)

\* The procedures of the interpreter call one another through Call, which
\* dispatches on the name of the procedure called.
RECURSIVE Call(_)
call_eval(expr, I, fuel) ==
    Call([op |-> "eval", expr |-> expr, I |-> I, fuel |-> fuel])
call_execute_with_control(stmt, I, fuel) ==
    Call([op |-> "execute_with_control", stmt |-> stmt, I |-> I, fuel |-> fuel])
call_EvalElements(elements, i, acc, I, fuel) ==
    Call([op |-> "EvalElements", elements |-> elements, i |-> i, acc |-> acc, I |-> I, fuel |-> fuel])
call_EvalArgs(params, args, i, fenv, I, fuel) ==
    Call([op |-> "EvalArgs", params |-> params, args |-> args, i |-> i, fenv |-> fenv, I |-> I, fuel |-> fuel])
call_CallBody(body, i, self, fi, fuel) ==
    Call([op |-> "CallBody", body |-> body, i |-> i, self |-> self, fi |-> fi, fuel |-> fuel])
call_RunBody(body, i, I, out, fuel) ==
    Call([op |-> "RunBody", body |-> body, i |-> i, I |-> I, out |-> out, fuel |-> fuel])
call_WhileLoop(cond, body, I, out, fuel) ==
    Call([op |-> "WhileLoop", cond |-> cond, body |-> body, I |-> I, out |-> out, fuel |-> fuel])
call_ForLoop(condition, update, body, I, out, fuel) ==
    Call([op |-> "ForLoop", condition |-> condition, update |-> update, body |-> body, I |-> I, out |-> out, fuel |-> fuel])
call_ElifChain(elifs, i, else_block, I, out, fuel) ==
    Call([op |-> "ElifChain", elifs |-> elifs, i |-> i, else_block |-> else_block, I |-> I, out |-> out, fuel |-> fuel])


\* The value of a match arm, or the panic it raises
Outcome(I, o) == IF o.ok THEN Value(I, o.val) ELSE Panic(I, o.msg)

\* Expr::ArrayLiteral: the elements are evaluated in order
EvalElements(elements, i, acc, I, fuel) ==
    IF i > Len(elements) THEN Value(I, ArrayV(acc))
    ELSE LET x == call_eval(elements[i], I, fuel)
         IN  IF Aborted(x) THEN x
             ELSE call_EvalElements(elements, i + 1, Append(acc, x.val), x.I, fuel)

\* The loop of Expr::FunctionCall over the arguments, with the callee's env
\* starting from the caller's bindings instead of from an empty map
EvalArgs_Inherit(params, args, i, fenv, I, fuel) ==
    IF i > Len(params)
    THEN Value(I, [n \in (DOMAIN I.env) \cup (DOMAIN fenv) |->
                        IF n \in DOMAIN fenv THEN fenv[n] ELSE I.env[n]])
    ELSE LET x == call_eval(args[i], I, fuel)
         IN  IF Aborted(x) THEN x
             ELSE call_EvalArgs(params, args, i + 1, Insert(fenv, params[i][1], x.val), x.I, fuel)

\* Expr::FunctionCall: the loop that evaluates args[i] in the caller and binds
\* it to the i-th parameter in the callee's env.  The result's val is that env.
EvalArgs(params, args, i, fenv, I, fuel) ==
    IF i > Len(params) THEN Value(I, fenv)
    ELSE LET x == call_eval(args[i], I, fuel)
         IN  IF Aborted(x) THEN x
             ELSE call_EvalArgs(params, args, i + 1, Insert(fenv, params[i][1], x.val), x.I, fuel)

\* The history of the run continues from interpreter `from` in interpreter `to`
Continue(to, from) == [to EXCEPT !.log = from.log, !.nact = from.nact]

\* The loop of Expr::FunctionCall over the body, with the payload of the
\* Return left behind
CallBody_DropPayload(body, i, self, fi, fuel) ==
    IF i > Len(body) THEN Value(Continue(self, fi), None)
    ELSE LET r == call_execute_with_control(body[i], fi, fuel)
             buffered ==
                IF IsNone(r.out) THEN self
                ELSE [self EXCEPT !.output_buffer = @ \o r.out.v \o <<NL>>]
         IN  IF Aborted(r) THEN [r EXCEPT !.I = Continue(self, r.I)]
             ELSE IF r.ctl.k = "Return" THEN Value(Continue(buffered, r.I), None)
             ELSE call_CallBody(body, i + 1, buffered, r.I, fuel)

\* Expr::FunctionCall: the loop over the body.  Each statement runs in
\* func_interpreter (fi); its output goes to the caller's output_buffer.  The
\* result's val is return_value, an Option<Value>.
CallBody(body, i, self, fi, fuel) ==
    IF i > Len(body) THEN Value(Continue(self, fi), None)
    ELSE LET r == call_execute_with_control(body[i], fi, fuel)
             buffered ==
                IF IsNone(r.out) THEN self
                ELSE [self EXCEPT !.output_buffer = @ \o r.out.v \o <<NL>>]
         IN  IF Aborted(r) THEN [r EXCEPT !.I = Continue(self, r.I)]
             ELSE IF r.ctl.k = "Return" THEN Value(Continue(buffered, r.I), r.ctl.v)
             ELSE call_CallBody(body, i + 1, buffered, r.I, fuel)

\* The panic of Expr::And and of Expr::Or for an operand that is no boolean
ExpectedBoolean(op) ==
    IF op = "And" THEN <<"E", "x", "p", "e", "c", "t", "e", "d", " ", "b", "o", "o", "l", "e", "a", "n", " ", "i", "n", " ", "A", "n", "d">> ELSE <<"E", "x", "p", "e", "c", "t", "e", "d", " ", "b", "o", "o", "l", "e", "a", "n", " ", "i", "n", " ", "O", "r">>

\* Expr::And and Expr::Or with both operands evaluated before either is
\* looked at
Logical_Strict(op, l, right, fuel) ==
    LET r == call_eval(right, l.I, fuel)
    IN  IF Aborted(l) THEN l
        ELSE IF Aborted(r) THEN r
        ELSE IF l.val.k # "Bool" THEN Panic(r.I, ExpectedBoolean(op))
        ELSE IF r.val.k # "Bool" THEN Panic(r.I, ExpectedBoolean(op))
        ELSE Value(r.I, BoolV(IF op = "And" THEN l.val.v /\ r.val.v ELSE l.val.v \/ r.val.v))

\* Expr::And and Expr::Or: l is what the evaluation of the left operand
\* left; the right operand is evaluated only when l does not decide
Logical(op, l, right, fuel) ==
    LET r == call_eval(right, l.I, fuel)
    IN  IF Aborted(l) THEN l
        ELSE IF l.val.k # "Bool" THEN Panic(l.I, ExpectedBoolean(op))
        ELSE IF l.val.v = (op = "Or") THEN Value(l.I, BoolV(op = "Or"))
        ELSE IF Aborted(r) THEN r
        ELSE IF r.val.k # "Bool" THEN Panic(r.I, ExpectedBoolean(op))
        ELSE Value(r.I, BoolV(r.val.v))

\* fn eval(&mut self, expr: Expr) -> Value
eval(expr, I, fuel) ==
    CASE expr.e = "Number" -> Value(I, IntV(expr.n))
      [] expr.e = "Bool" -> Value(I, BoolV(expr.b))
      [] expr.e = "StrLiteral" -> Value(I, StrV(expr.s))
      [] expr.e = "Double" -> Value(I, DoubleV(expr.n, expr.d))
      [] expr.e = "Var" ->
            IF expr.name \in DOMAIN I.env THEN Value(I, I.env[expr.name])
            ELSE Panic(I, <<"U", "n", "d", "e", "f", "i", "n", "e", "d", " ", "v", "a", "r", "i", "a", "b", "l", "e", ":", " ">> \o expr.name)
      [] expr.e = "ArrayLiteral" -> call_EvalElements(expr.elements, 1, <<>>, I, fuel)
      [] expr.e = "Index" ->
            LET a == call_eval(expr.a, I, fuel)
                i == call_eval(expr.i, a.I, fuel)
            IN  IF Aborted(a) THEN a
                ELSE IF Aborted(i) THEN i
                ELSE Outcome(i.I, IndexValue(a.val, i.val))
      [] expr.e = "AssignIndex" ->
            LET a == call_eval(expr.a, I, fuel)
                i == call_eval(expr.i, a.I, fuel)
                x == call_eval(expr.x, i.I, fuel)
            IN  IF Aborted(a) THEN a
                ELSE IF Aborted(i) THEN i
                ELSE IF Aborted(x) THEN x
                ELSE Outcome(x.I, AssignIndexValue(a.val, i.val, x.val))
      [] expr.e \in StrictBinaryOps ->
            LET l == call_eval(expr.l, I, fuel)
                r == call_eval(expr.r, l.I, fuel)
            IN  IF Aborted(l) THEN l
                ELSE IF Aborted(r) THEN r
                ELSE Outcome(r.I, ApplyBinary(expr.e, l.val, r.val))
      [] expr.e = "Neg" ->
            LET x == call_eval(expr.x, I, fuel)
            IN  IF Aborted(x) THEN x ELSE Outcome(x.I, NegValue(x.val))
      [] expr.e \in {"And", "Or"} ->
            Logical(expr.e, call_eval(expr.l, I, fuel), expr.r, fuel)
      [] expr.e = "Not" ->
            LET x == call_eval(expr.x, I, fuel)
            IN  IF Aborted(x) THEN x
                ELSE IF x.val.k # "Bool" THEN Panic(x.I, <<"E", "x", "p", "e", "c", "t", "e", "d", " ", "b", "o", "o", "l", "e", "a", "n", " ", "i", "n", " ", "N", "o", "t">>)
                ELSE Value(x.I, BoolV(~x.val.v))
      [] expr.e = "FunctionCall" ->
            IF expr.name \notin DOMAIN I.functions
            THEN Panic(I, <<"U", "n", "d", "e", "f", "i", "n", "e", "d", " ", "f", "u", "n", "c", "t", "i", "o", "n", ":", " ">> \o expr.name)
            ELSE
            LET func_def == I.functions[expr.name]
                bound == call_EvalArgs(func_def.params, expr.args, 1, <<>>, I, fuel)
                callee == bound.I.nact + 1
                self == [bound.I EXCEPT !.nact = callee]
                func_interpreter ==
                    Continue([NewInterpreter EXCEPT !.functions = I.functions,
                                                    !.env = bound.val, !.act = callee],
                             self)
                called == call_CallBody(func_def.body, 1, self, func_interpreter, fuel - 1)
                return_value == IF IsNone(called.val) THEN IntV(0) ELSE called.val.v
            IN  IF ArityMismatch(expr.args, func_def.params)
                THEN Panic(I, ArityMessage(expr.name, Len(func_def.params), Len(expr.args)))
                ELSE IF Aborted(bound) THEN bound
                ELSE IF fuel = 0 THEN OutOfFuel(bound.I)
                ELSE IF Aborted(called) THEN called
                ELSE Value(Ev(called.I, "Call", <<callee, return_value>>), return_value)

\* The loop of a block without the check for Return: the statements after a
\* return are executed
RunBody_NoUnwind(body, i, I, out, fuel) ==
    IF i > Len(body) THEN Done(I, out, CfNone)
    ELSE LET r == call_execute_with_control(body[i], I, fuel)
             o == IF IsNone(r.out) THEN out ELSE out \o r.out.v \o <<NL>>
         IN  IF Aborted(r) THEN r
             ELSE call_RunBody(body, i + 1, r.I, o, fuel)

\* The loop `for stmt in body` of a while, for, if, elif or else block: `out`
\* is the statement's local `output`; it stops at the first Return.
RunBody(body, i, I, out, fuel) ==
    IF i > Len(body) THEN Done(I, out, CfNone)
    ELSE LET r == call_execute_with_control(body[i], I, fuel)
             o == IF IsNone(r.out) THEN out ELSE out \o r.out.v \o <<NL>>
         IN  IF Aborted(r) THEN r
             ELSE IF r.ctl.k = "Return" THEN Done(r.I, o, r.ctl)
             ELSE call_RunBody(body, i + 1, r.I, o, fuel)

\* A while whose condition must be a boolean
WhileLoop_Strict(cond, body, I, out, fuel) ==
    LET c == call_eval(cond, Ev(I, "Cond", None), fuel)
        b == call_RunBody(body, 1, c.I, out, fuel)
    IN  IF fuel = 0 THEN OutOfFuel(I)
        ELSE IF Aborted(c) THEN c
        ELSE IF c.val.k # "Bool" THEN Panic(c.I, <<"E", "x", "p", "e", "c", "t", "e", "d", " ", "b", "o", "o", "l", "e", "a", "n", " ", "c", "o", "n", "d", "i", "t", "i", "o", "n">>)
        ELSE IF ~ValueEq(c.val, BoolV(TRUE)) THEN Done(c.I, NonEmpty(out), CfNone)
        ELSE IF Aborted(b) THEN b
        ELSE IF b.ctl.k = "Return" THEN Done(b.I, NonEmpty(b.out), b.ctl)
        ELSE IF SameMemory(b.I, I) THEN Diverge(b.I)
        ELSE call_WhileLoop(cond, body, b.I, b.out, fuel - 1)

\* Stmt::While: the `loop`
WhileLoop(cond, body, I, out, fuel) ==
    LET c == call_eval(cond, Ev(I, "Cond", None), fuel)
        b == call_RunBody(body, 1, c.I, out, fuel)
    IN  IF fuel = 0 THEN OutOfFuel(I)
        ELSE IF Aborted(c) THEN c
        ELSE IF ~ValueEq(c.val, BoolV(TRUE)) THEN Done(c.I, NonEmpty(out), CfNone)
        ELSE IF Aborted(b) THEN b
        ELSE IF b.ctl.k = "Return" THEN Done(b.I, NonEmpty(b.out), b.ctl)
        ELSE IF SameMemory(b.I, I) THEN Diverge(b.I)
        ELSE call_WhileLoop(cond, body, b.I, b.out, fuel - 1)

\* Stmt::For: the `loop` that follows the init statement
ForLoop(condition, update, body, I, out, fuel) ==
    LET c == IF IsNone(condition) THEN Value(I, BoolV(TRUE))
             ELSE call_eval(condition.v, Ev(I, "Cond", None), fuel)
        should_continue == ValueEq(c.val, BoolV(TRUE))
        b == call_RunBody(body, 1, c.I, out, fuel)
        u == IF IsNone(update) THEN Done(b.I, None, CfNone)
             ELSE call_execute_with_control(update.v, b.I, fuel)
    IN  IF fuel = 0 THEN OutOfFuel(I)
        ELSE IF Aborted(c) THEN c
        ELSE IF ~should_continue THEN Done(c.I, NonEmpty(out), CfNone)
        ELSE IF Aborted(b) THEN b
        ELSE IF b.ctl.k = "Return" THEN Done(b.I, NonEmpty(b.out), b.ctl)
        ELSE IF Aborted(u) THEN u
        ELSE IF SameMemory(u.I, I) THEN Diverge(u.I)
        ELSE call_ForLoop(condition, update, body, u.I, b.out, fuel - 1)

\* Stmt::If: the elif branches in order, then the else block
ElifChain(elifs, i, else_block, I, out, fuel) ==
    IF i > Len(elifs)
    THEN IF IsNone(else_block) THEN Done(I, NonEmpty(out), CfNone)
         ELSE LET b == call_RunBody(else_block.v, 1, I, out, fuel)
              IN  IF Aborted(b) THEN b ELSE Done(b.I, NonEmpty(b.out), b.ctl)
    ELSE LET c == call_eval(elifs[i][1], Ev(I, "Cond", None), fuel)
             b == call_RunBody(elifs[i][2], 1, c.I, out, fuel)
         IN  IF Aborted(c) THEN c
             ELSE IF ValueEq(c.val, BoolV(TRUE))
                  THEN IF Aborted(b) THEN b ELSE Done(b.I, NonEmpty(b.out), b.ctl)
             ELSE call_ElifChain(elifs, i + 1, else_block, c.I, out, fuel)

\* fn execute_with_control(&mut self, stmt: Stmt) -> (Option<String>, ControlFlow)
execute_with_control(stmt, I, fuel) ==
    CASE stmt.s = "Let" ->
            LET x == call_eval(stmt.expr, I, fuel)
            IN  IF Aborted(x) THEN x
                ELSE Done(Ev([x.I EXCEPT !.env = Insert(@, stmt.name, x.val)], "Let", None),
                          None, CfNone)
      [] stmt.s = "Print" ->
            LET x == call_eval(stmt.expr, I, fuel)
            IN  IF Aborted(x) THEN x
                ELSE Done(Ev(x.I, "Print", to_string(x.val)), Some(to_string(x.val)), CfNone)
      [] stmt.s = "While" -> call_WhileLoop(stmt.cond, stmt.body, I, <<>>, fuel)
      [] stmt.s = "If" ->
            LET c == call_eval(stmt.cond, Ev(I, "Cond", None), fuel)
                b == call_RunBody(stmt.if_block, 1, c.I, <<>>, fuel)
            IN  IF Aborted(c) THEN c
                ELSE IF ValueEq(c.val, BoolV(TRUE))
                     THEN IF Aborted(b) THEN b ELSE Done(b.I, NonEmpty(b.out), b.ctl)
                ELSE call_ElifChain(stmt.elifs, 1, stmt.else_block, c.I, <<>>, fuel)
      [] stmt.s = "Assign" ->
            LET x == call_eval(stmt.expr, I, fuel)
            IN  IF Aborted(x) THEN x
                ELSE AssignTo(x.I, stmt.name, x.val)
      [] stmt.s = "For" ->
            LET i == IF IsNone(stmt.init) THEN Done(I, None, CfNone)
                     ELSE call_execute_with_control(stmt.init.v, I, fuel)
            IN  IF Aborted(i) THEN i
                ELSE call_ForLoop(stmt.cond, stmt.update, stmt.body, i.I, <<>>, fuel)
      [] stmt.s = "FunctionDef" ->
            LET func_def ==
                    [params |-> stmt.params, return_type |-> stmt.return_type,
                     body |-> stmt.body]
            IN  Done(Ev([I EXCEPT !.functions = Insert(@, stmt.name, func_def)],
                        "FunctionDef", None),
                     None, CfNone)
      [] stmt.s = "Return" ->
            LET x == IF IsNone(stmt.expr) THEN Value(I, None)
                     ELSE call_eval(stmt.expr.v, I, fuel)
                value == IF IsNone(stmt.expr) THEN None ELSE Some(x.val)
            IN  IF Aborted(x) THEN x
                ELSE Done(Ev(x.I, "Return", value), None, CfReturn(value))
      [] stmt.s = "ExprStmt" ->
            LET x == call_eval(stmt.expr, I, fuel)
            IN  IF Aborted(x) THEN x
                ELSE IF x.I.output_buffer # <<>>
                THEN Done(Ev([x.I EXCEPT !.output_buffer = <<>>], "ExprStmt", None),
                          Some(TrimEnd(x.I.output_buffer)), CfNone)
                ELSE Done(Ev(x.I, "ExprStmt", None), None, CfNone)

Call(c) ==
    CASE c.op = "eval" ->
            eval(c.expr, c.I, c.fuel)
      [] c.op = "execute_with_control" ->
            execute_with_control(c.stmt, c.I, c.fuel)
      [] c.op = "EvalElements" ->
            EvalElements(c.elements, c.i, c.acc, c.I, c.fuel)
      [] c.op = "EvalArgs" ->
            EvalArgs(c.params, c.args, c.i, c.fenv, c.I, c.fuel)
      [] c.op = "CallBody" ->
            CallBody(c.body, c.i, c.self, c.fi, c.fuel)
      [] c.op = "RunBody" ->
            RunBody(c.body, c.i, c.I, c.out, c.fuel)
      [] c.op = "WhileLoop" ->
            WhileLoop(c.cond, c.body, c.I, c.out, c.fuel)
      [] c.op = "ForLoop" ->
            ForLoop(c.condition, c.update, c.body, c.I, c.out, c.fuel)
      [] c.op = "ElifChain" ->
            ElifChain(c.elifs, c.i, c.else_block, c.I, c.out, c.fuel)

----------------------------------------------------------------------------
(* The boundary: lib.rs, run_finn_code *)

FinnOk(text) == [k |-> "Ok", v |-> text]
ParseError(msg) == [k |-> "ParseError", v |-> msg]
RuntimeError(msg) == [k |-> "RuntimeError", v |-> msg]

\* panic::catch_unwind around the closure: Ok(value) when the closure
\* returned, Err(payload) when a panic unwound out of it.  Every panic of the
\* pipeline carries a &str or a String, so the payload is its message.
Returned(value) == [k |-> "Returned", v |-> value]
catch_unwind(r) == [k |-> "Panicked", v |-> r.msg]

\* The classification of a caught message by its content
Classify(error_msg) ==
    IF Contains(error_msg, <<"E", "x", "p", "e", "c", "t", "e", "d">>) \/ Contains(error_msg, <<"U", "n", "e", "x", "p", "e", "c", "t", "e", "d">>)
    THEN ParseError(error_msg)
    ELSE RuntimeError(error_msg)

\* `match result` that hands a caught panic on (panic::resume_unwind)
MatchResult_Resume(caught) ==
    IF caught.k = "Returned" THEN FinnOk(caught.v) ELSE caught

\* `match result` of run_finn_code
MatchResult(caught) ==
    IF caught.k = "Returned" THEN FinnOk(caught.v) ELSE Classify(caught.v)

----------------------------------------------------------------------------
(* The programs run by the interpreter *)

NameX == <<"x">>
NameY == <<"y">>
NameI == <<"i">>
NameN == <<"n">>
NameF == <<"f">>
NameG == <<"g">>
NameH == <<"h">>
NameK == <<"k">>
NameR == <<"r">>
NameS == <<"s">>
NameQ == <<"q">>
NameP == <<"p">>
NameM == <<"m">>
NameA == <<"a">>
NameB == <<"b">>
NameZ == <<"z">>
NameExpectedTotal == <<"E", "x", "p", "e", "c", "t", "e", "d", "T", "o", "t", "a", "l">>
NameUnexpectedHelper == <<"U", "n", "e", "x", "p", "e", "c", "t", "e", "d", "H", "e", "l", "p", "e", "r">>

Call0(name) == FunctionCall(name, <<>>)

\* funct f(): int { while (true) { return 1; } return 2; }
DefF ==
    FunctionDefS(NameF, <<>>, Some("Int"),
        << While(Bool(TRUE), <<Return(Some(Number(1)))>>), Return(Some(Number(2))) >>)

\* funct g(): int { print("a"); return 7; }
DefG ==
    FunctionDefS(NameG, <<>>, Some("Int"),
        << PrintS(StrLiteral(<<"a">>)), Return(Some(Number(7))) >>)

\* funct h(): int { let y = g(); print("b"); return y + 1; print("c"); }
DefH ==
    FunctionDefS(NameH, <<>>, Some("Int"),
        << Let("Int", NameY, Call0(NameG)), PrintS(StrLiteral(<<"b">>)),
           Return(Some(Binary("Add", Var(NameY), Number(1)))),
           PrintS(StrLiteral(<<"c">>)) >>)

\* funct k(n: int): int {
\*   for (let i = 0; i < 3; i = i + 1) {
\*     if (i == n) { return i; print("d"); } elif (i == 0) { print(i); } else { return 5; }
\*     print("e");
\*   }
\*   return 9;
\* }
DefK ==
    FunctionDefS(NameK, << <<NameN, "Int">> >>, Some("Int"),
        << For(Some(Let("Int", NameI, Number(0))),
               Some(Binary("LessThan", Var(NameI), Number(3))),
               Some(Assign(NameI, Binary("Add", Var(NameI), Number(1)))),
               << If(Binary("Eq", Var(NameI), Var(NameN)),
                     << Return(Some(Var(NameI))), PrintS(StrLiteral(<<"d">>)) >>,
                     << << Binary("Eq", Var(NameI), Number(0)), <<PrintS(Var(NameI))>> >> >>,
                     Some(<< Return(Some(Number(5))) >>)),
                  PrintS(StrLiteral(<<"e">>)) >>),
           Return(Some(Number(9))) >>)

\* funct r() { return; print("z"); }
DefR ==
    FunctionDefS(NameR, <<>>, None, << Return(None), PrintS(StrLiteral(<<"z">>)) >>)

\* The function definitions every control-flow program starts with
Prelude == << DefF, DefG, DefH, DefK, DefR >>

\* The statements a control-flow program continues with
StmtPool ==
    { PrintS(Call0(NameF)),
      PrintS(Call0(NameG)),
      PrintS(Call0(NameH)),
      PrintS(Call0(NameR)),
      PrintS(FunctionCall(NameK, <<Number(0)>>)),
      PrintS(FunctionCall(NameK, <<Number(1)>>)),
      PrintS(FunctionCall(NameK, <<Number(7)>>)),
      PrintS(StrLiteral(<<"p">>)),
      PrintS(Var(NameX)),
      Let("Int", NameX, Number(10)),
      Let("Int", NameX, Call0(NameG)),
      Assign(NameX, Binary("Add", Var(NameX), Call0(NameH))),
      ExprStmt(Call0(NameH)),
      Return(Some(Call0(NameG))),
      Return(None),
      If(Binary("Eq", Call0(NameG), Number(7)),
         << PrintS(StrLiteral(<<"t">>)), Return(None), PrintS(StrLiteral(<<"u">>)) >>,
         <<>>, None),
      While(Binary("LessThan", Var(NameX), Number(12)),
            << PrintS(Call0(NameG)),
               Assign(NameX, Binary("Add", Var(NameX), Number(1))) >>),
      While(Bool(TRUE), << PrintS(StrLiteral(<<"w">>)), Return(None) >>),
      While(Bool(TRUE), <<>>),
      PrintS(Binary("Div", Number(5), Number(0))),
      PrintS(Binary("Div", Double(3, 2), Double(0, 1))),
      PrintS(Binary("Mod", Number(5), Number(0))) }

\* All sequences over S of length at most n
RECURSIVE SeqsUpTo(_, _)
SeqsUpTo(S, n) ==
    IF n = 0 THEN {<<>>}
    ELSE LET shorter == SeqsUpTo(S, n - 1)
         IN  shorter \cup {Append(p, s) : p \in shorter, s \in S}

ControlPrograms == {Prelude \o p : p \in SeqsUpTo(StmtPool, MaxProgLen)}

\* The operands of the operator programs
Atoms ==
    { Number(0), Number(3), Bool(TRUE), Bool(FALSE), StrLiteral(<<"s">>),
      Double(3, 2), Double(0, 1), ArrayLiteral(<<Number(1), Number(2)>>),
      Var(NameX), Var(NameExpectedTotal) }

\* 1 / 0 == 0
DivByZeroIsZero == Binary("Eq", Binary("Div", Number(1), Number(0)), Number(0))

\* `and` and `or` with a literal on the left and, on the right, an operand
\* that fails, one that prints and is no boolean, one that prints and is one
ShortCircuitExprs ==
    {Binary(op, Bool(b), r) :
        op \in {"And", "Or"}, b \in BOOLEAN,
        r \in {DivByZeroIsZero, Call0(NameG), Binary("Eq", Call0(NameG), Number(7))}}

\* One expression per operator and operand pairing, and the failing calls
OperatorExprs ==
    {Binary(op, l, r) : op \in StrictBinaryOps \cup {"And", "Or"}, l \in Atoms, r \in Atoms}
        \cup {Unary(op, x) : op \in {"Neg", "Not"}, x \in Atoms}
        \cup {Index(a, i) : a \in Atoms, i \in Atoms}
        \cup {AssignIndex(Var(NameY), i, Number(9)) : i \in Atoms}
        \cup { FunctionCall(NameG, <<Number(1)>>), FunctionCall(NameG, <<>>),
               FunctionCall(NameUnexpectedHelper, <<>>), FunctionCall(NameK, <<>>) }
        \cup ShortCircuitExprs

\* let x = 2; let y = [1, 2]; <g>; print(<expression>);
OperatorPrograms ==
    { << Let("Int", NameX, Number(2)),
         Let("Int", NameY, ArrayLiteral(<<Number(1), Number(2)>>)),
         DefG, PrintS(e) >> : e \in OperatorExprs }
        \cup { << PrintS(StrLiteral(<<"p">>)), Assign(NameExpectedTotal, Number(1)) >>,
               << PrintS(StrLiteral(<<"p">>)), Assign(NameY, Number(1)) >> }

\* funct s(x: int): int { x = x + 1; let y = 5; let z = 1; print(x); return x + y; }
DefS ==
    FunctionDefS(NameS, << <<NameX, "Int">> >>, Some("Int"),
        << Assign(NameX, Binary("Add", Var(NameX), Number(1))),
           Let("Int", NameY, Number(5)),
           Let("Int", NameZ, Number(1)),
           PrintS(Var(NameX)),
           Return(Some(Binary("Add", Var(NameX), Var(NameY)))) >>)

\* funct q(): int { return x; }
DefQ == FunctionDefS(NameQ, <<>>, Some("Int"), << Return(Some(Var(NameX))) >>)

\* funct p(a: int, b: int): int { return a - b; }
DefP ==
    FunctionDefS(NameP, << <<NameA, "Int">>, <<NameB, "Int">> >>, Some("Int"),
        << Return(Some(Binary("Sub", Var(NameA), Var(NameB)))) >>)

\* funct m() { let y = 1; }
DefM == FunctionDefS(NameM, <<>>, None, << Let("Int", NameY, Number(1)) >>)

\* let x = 2; let y = 3; and the functions the call programs use
CallPrelude ==
    << Let("Int", NameX, Number(2)), Let("Int", NameY, Number(3)),
       DefG, DefH, DefK, DefR, DefS, DefQ, DefP, DefM >>

\* The calls of the call programs
CallExprs ==
    { FunctionCall(NameS, <<Var(NameX)>>),
      FunctionCall(NameS, <<Var(NameY)>>),
      Call0(NameQ),
      Call0(NameM),
      Call0(NameR),
      Call0(NameH),
      FunctionCall(NameP, <<Call0(NameG), Call0(NameH)>>),
      FunctionCall(NameP, <<Number(5), Var(NameA)>>),
      FunctionCall(NameP, <<Call0(NameG)>>),
      FunctionCall(NameP, <<Call0(NameG), Call0(NameH), Call0(NameG)>>),
      FunctionCall(NameK, <<Call0(NameG), Call0(NameG)>>),
      FunctionCall(NameS, <<>>),
      FunctionCall(NameZ, <<Call0(NameG)>>) }

\* <prelude>; print(<call>); or <call>; or let z = <call>; then print(x + y);
CallPrograms ==
    { CallPrelude \o <<c>> \o t :
        c \in {PrintS(e) : e \in CallExprs} \cup {ExprStmt(e) : e \in CallExprs}
                \cup {Let("Int", NameZ, e) : e \in CallExprs},
        t \in {<<>>, <<PrintS(Binary("Add", Var(NameX), Var(NameY)))>>} }

\* let x = 2; let y = 3; <name> = <expression>; print(x + y);
AssignPrograms ==
    { << Let("Int", NameX, Number(2)), Let("Int", NameY, Number(3)), Assign(n, e) >> \o t :
        n \in {NameX, NameY, NameZ},
        e \in {Number(9), StrLiteral(<<"s">>), Binary("Add", Var(NameX), Var(NameY)), Var(NameZ)},
        t \in {<<>>, <<PrintS(Binary("Add", Var(NameX), Var(NameY)))>>} }

\* The array literals of the equality programs
ArrayAtoms ==
    { ArrayLiteral(<<>>),
      ArrayLiteral(<<Number(1)>>),
      ArrayLiteral(<<Number(1), Number(2)>>),
      ArrayLiteral(<<Number(1), Number(3)>>),
      ArrayLiteral(<<Number(1), StrLiteral(<<"s">>)>>),
      ArrayLiteral(<<ArrayLiteral(<<Number(1)>>), Number(2)>>),
      ArrayLiteral(<<ArrayLiteral(<<Number(3)>>), Number(2)>>),
      Number(1) }

\* let x = 2; let y = [1, 2]; <g>; print(<array> == <array>); or with !=
EqualityPrograms ==
    { << Let("Int", NameX, Number(2)),
         Let("Int", NameY, ArrayLiteral(<<Number(1), Number(2)>>)),
         DefG, PrintS(Binary(op, l, r)) >> :
        op \in {"Eq", "Neq"}, l \in ArrayAtoms, r \in ArrayAtoms }

\* The indices of the index programs: -1, 0, 1, 2 and 5
Indices == {Unary("Neg", Number(1)), Number(0), Number(1), Number(2), Number(5)}

\* let y = [1, 2]; print(y[i]); print(y[i] = 9);
IndexPrograms ==
    { << Let("Int", NameY, ArrayLiteral(<<Number(1), Number(2)>>)),
         PrintS(Index(Var(NameY), i)),
         PrintS(AssignIndex(Var(NameY), i, Number(9))) >> : i \in Indices }

\* The statements of the print programs
PrintPool ==
    { PrintS(StrLiteral(<<>>)),
      PrintS(StrLiteral(<<"a", " ">>)),
      PrintS(StrLiteral(<<"b">>)),
      PrintS(Number(1)),
      PrintS(Bool(TRUE)),
      Let("String", NameX, StrLiteral(<<"c", " ">>)),
      PrintS(Var(NameX)) }

\* let x = "d"; and then at most MaxPrints statements that declare or print
PrintPrograms ==
    { <<Let("String", NameX, StrLiteral(<<"d">>))>> \o p : p \in SeqsUpTo(PrintPool, MaxPrints) }

\* The conditions that are not booleans
NonBooleans ==
    { Number(0), Number(1), StrLiteral(<<"s">>), Double(3, 2), ArrayLiteral(<<Number(1)>>),
      Binary("Add", Number(1), Number(1)) }

\* while (c) { print("w"); }     for (; c; ) { print("w"); }
\* if (c) { print("t"); }        if (false) { print("t"); } elif (c) { print("u"); }
\* if (false) { print("t"); } elif (c) { print("u"); } else { print("e"); }
CondStmts(c) ==
    { While(c, <<PrintS(StrLiteral(<<"w">>))>>),
      For(None, Some(c), None, <<PrintS(StrLiteral(<<"w">>))>>),
      If(c, <<PrintS(StrLiteral(<<"t">>))>>, <<>>, None),
      If(Bool(FALSE), <<PrintS(StrLiteral(<<"t">>))>>,
         << <<c, <<PrintS(StrLiteral(<<"u">>))>> >> >>, None),
      If(Bool(FALSE), <<PrintS(StrLiteral(<<"t">>))>>,
         << <<c, <<PrintS(StrLiteral(<<"u">>))>> >> >>, Some(<<PrintS(StrLiteral(<<"e">>))>>)) }

\* <statement with the condition c>; print("a");
CondPrograms ==
    { <<s, PrintS(StrLiteral(<<"a">>))>> : s \in UNION {CondStmts(c) : c \in NonBooleans} }

\* let y = [1, 2]; y[i] = 9; print(y[i] = 9); print(y[i]); print(y);
WriteReadPrograms ==
    { << Let("Int", NameY, ArrayLiteral(<<Number(1), Number(2)>>)),
         ExprStmt(AssignIndex(Var(NameY), Number(i), Number(9))),
         PrintS(AssignIndex(Var(NameY), Number(i), Number(9))),
         PrintS(Index(Var(NameY), Number(i))),
         PrintS(Var(NameY)) >> : i \in {0, 1} }

Programs ==
    ControlPrograms \cup OperatorPrograms \cup CallPrograms \cup AssignPrograms
        \cup EqualityPrograms \cup IndexPrograms \cup PrintPrograms \cup CondPrograms
        \cup WriteReadPrograms

----------------------------------------------------------------------------
(* The lexer: lexer.rs *)

\* enum Token.  The variants without payload are [k |-> name]; Number,
\* Double, BoolLiteral, StrLiteral, Ident and Unknown carry v.
Tok(name) == [k |-> name]
TokV(name, v) == [k |-> name, v |-> v]
EOF == Tok("EOF")

Digits == {"0", "1", "2", "3", "4", "5", "6", "7", "8", "9"}
Letters ==
    {"a", "b", "c", "d", "e", "f", "g", "h", "i", "j", "k", "l", "m",
     "n", "o", "p", "q", "r", "s", "t", "u", "v", "w", "x", "y", "z",
     "A", "B", "C", "D", "E", "F", "G", "H", "I", "J", "K", "L", "M",
     "N", "O", "P", "Q", "R", "S", "T", "U", "V", "W", "X", "Y", "Z"}

\* char::is_ascii_digit, is_ascii_alphabetic, is_ascii_alphanumeric
IsDigit(c) == c \in Digits
IsAlphabetic(c) == c \in Letters
IsAlphanumeric(c) == c \in Letters \cup Digits

DigitValue(c) == CHOOSE d \in 0..9 : DigitChar(d) = c

\* Lexer::new
NewLexer(input) == [input |-> input, position |-> 0]

\* Lexer::peek
Peek(lx) == IF lx.position < Len(lx.input) THEN Some(lx.input[lx.position + 1]) ELSE None

\* An advance that starts the input again once it is past the end
Advance_Rewind(lx) ==
    IF lx.position >= Len(lx.input) THEN [lx EXCEPT !.position = 0]
    ELSE [lx EXCEPT !.position = @ + 1]

\* Lexer::advance: the position moves even at the end of the input
Advance(lx) == [lx EXCEPT !.position = @ + 1]

\* Lexer::skip_whitespace
RECURSIVE SkipWhitespace(_)
SkipWhitespace(lx) ==
    IF ~IsNone(Peek(lx)) /\ IsWhitespace(Peek(lx).v) THEN SkipWhitespace(Advance(lx)) ELSE lx

\* A string literal loop in which a backslash escapes the character after it
RECURSIVE ReadString_Escapes(_, _)
ReadString_Escapes(lx, s) ==
    IF IsNone(Peek(lx)) THEN [lexer |-> lx, text |-> s]
    ELSE IF Peek(lx).v = "\"" THEN [lexer |-> Advance(lx), text |-> s]
    ELSE IF Peek(lx).v = "\\" /\ ~IsNone(Peek(Advance(lx)))
    THEN ReadString_Escapes(Advance(Advance(lx)), Append(s, Peek(Advance(lx)).v))
    ELSE ReadString_Escapes(Advance(lx), Append(s, Peek(lx).v))

\* The string literal loop: up to the closing quote or the end of the input
RECURSIVE ReadString(_, _)
ReadString(lx, s) ==
    IF IsNone(Peek(lx)) THEN [lexer |-> lx, text |-> s]
    ELSE IF Peek(lx).v = "\"" THEN [lexer |-> Advance(lx), text |-> s]
    ELSE ReadString(Advance(lx), Append(s, Peek(lx).v))

\* A numeric literal loop that ends at every '.'
RECURSIVE ReadNumber_NoDot(_, _, _)
ReadNumber_NoDot(lx, num, is_float) ==
    IF IsNone(Peek(lx)) THEN [lexer |-> lx, text |-> num, is_float |-> is_float]
    ELSE IF IsDigit(Peek(lx).v)
    THEN ReadNumber_NoDot(Advance(lx), Append(num, Peek(lx).v), is_float)
    ELSE [lexer |-> lx, text |-> num, is_float |-> is_float]

\* The numeric literal loop: digits, and one '.' while is_float is false
RECURSIVE ReadNumber(_, _, _)
ReadNumber(lx, num, is_float) ==
    IF IsNone(Peek(lx)) THEN [lexer |-> lx, text |-> num, is_float |-> is_float]
    ELSE IF IsDigit(Peek(lx).v) THEN ReadNumber(Advance(lx), Append(num, Peek(lx).v), is_float)
    ELSE IF Peek(lx).v = "." /\ ~is_float THEN ReadNumber(Advance(lx), Append(num, "."), TRUE)
    ELSE [lexer |-> lx, text |-> num, is_float |-> is_float]

\* The identifier loop
RECURSIVE ReadIdent(_, _)
ReadIdent(lx, ident) ==
    IF ~IsNone(Peek(lx)) /\ IsAlphanumeric(Peek(lx).v)
    THEN ReadIdent(Advance(lx), Append(ident, Peek(lx).v))
    ELSE [lexer |-> lx, text |-> ident]

RECURSIVE StripZeros(_)
StripZeros(num) == IF Len(num) > 1 /\ Head(num) = "0" THEN StripZeros(Tail(num)) ELSE num

\* a < b for digit strings of equal length
RECURSIVE DigitsLess(_, _)
DigitsLess(a, b) ==
    IF a = <<>> THEN FALSE
    ELSE IF Head(a) # Head(b) THEN DigitValue(Head(a)) < DigitValue(Head(b))
    ELSE DigitsLess(Tail(a), Tail(b))

RECURSIVE DigitsToNat(_, _)
DigitsToNat(num, acc) ==
    IF num = <<>> THEN acc ELSE DigitsToNat(Tail(num), acc * 10 + DigitValue(Head(num)))

\* i64::MAX in decimal
I64MaxDigits == <<"9", "2", "2", "3", "3", "7", "2", "0", "3", "6", "8", "5", "4", "7", "7", "5", "8", "0", "7">>

\* num.parse::<i64>().unwrap() of a digit string: an error, and the panic of
\* unwrap (its message without the quotation marks), when the number exceeds i64::MAX
ParseI64(num) ==
    LET d == StripZeros(num)
    IN  IF Len(d) > Len(I64MaxDigits) \/ (Len(d) = Len(I64MaxDigits) /\ DigitsLess(I64MaxDigits, d))
        THEN Fail(<<"c", "a", "l", "l", "e", "d", " ", "R", "e", "s", "u", "l", "t", ":", ":", "u", "n", "w", "r", "a", "p", "(", ")", " ", "o", "n", " ", "a", "n", " ", "E", "r", "r", " ", "v", "a", "l", "u", "e", ":", " ", "P", "a", "r", "s", "e", "I", "n", "t", "E", "r", "r", "o", "r", " ", "{", " ", "k", "i", "n", "d", ":", " ", "P", "o", "s", "O", "v", "e", "r", "f", "l", "o", "w", " ", "}">>)
        ELSE Ok(DigitsToNat(d, 0))

RECURSIVE Pow10(_)
Pow10(n) == IF n = 0 THEN 1 ELSE 10 * Pow10(n - 1)

\* num.parse::<f64>() of digits '.' digits: it never fails
ParseF64(num) ==
    LET dot == CHOOSE i \in 1..Len(num) : num[i] = "."
        whole == SubSeq(num, 1, dot - 1)
        frac == SubSeq(num, dot + 1, Len(num))
    IN  [n |-> DigitsToNat(whole \o frac, 0), d |-> Pow10(Len(frac))]

\* The keyword table
Keyword(ident) ==
    CASE ident = <<"l", "e", "t">> -> Tok("Let")
      [] ident = <<"w", "o", "o", "f">> -> Tok("Print")
      [] ident = <<"i", "n", "t">> -> Tok("Int")
      [] ident = <<"b", "o", "o", "l">> -> Tok("Bool")
      [] ident = <<"s", "t", "r", "i", "n", "g">> -> Tok("StringType")
      [] ident = <<"d", "o", "u", "b", "l", "e">> -> Tok("DoubleType")
      [] ident = <<"w", "h", "i", "l", "e">> -> Tok("While")
      [] ident = <<"t", "r", "u", "e">> -> TokV("BoolLiteral", TRUE)
      [] ident = <<"f", "a", "l", "s", "e">> -> TokV("BoolLiteral", FALSE)
      [] OTHER -> TokV("Ident", ident)

\* The tokens of one character
Punctuation(c) ==
    CASE c = "+" -> Tok("Plus")
      [] c = "-" -> Tok("Minus")
      [] c = "*" -> Tok("Star")
      [] c = "/" -> Tok("Slash")
      [] c = "%" -> Tok("Percent")
      [] c = ";" -> Tok("Semicolon")
      [] c = "(" -> Tok("LParen")
      [] c = ")" -> Tok("RParen")
      [] c = "{" -> Tok("LBrace")
      [] c = "}" -> Tok("RBrace")
      [] c = ":" -> Tok("Colon")

\* What next_token leaves: the lexer, and the token or the panic message
Lexed(lx, tok) == [lexer |-> lx, ok |-> TRUE, tok |-> tok]
LexPanic(lx, msg) == [lexer |-> lx, ok |-> FALSE, msg |-> msg]

\* One or two characters: c followed by '=' or c alone
TwoChar(lx, both, alone) ==
    IF Peek(lx) = Some("=") THEN Lexed(Advance(lx), Tok(both)) ELSE Lexed(lx, Tok(alone))

\* pub fn next_token(&mut self) -> Token
next_token(lexer0) ==
    LET skipped == SkipWhitespace(lexer0)
        ch == Peek(skipped)
        lx == Advance(skipped)
    IN  IF IsNone(ch) THEN Lexed(lx, EOF)
        ELSE LET c == ch.v
             IN  CASE c = "=" -> TwoChar(lx, "Eq", "Assign")
                   [] c \in {"+", "-", "*", "/", "%", ";", "(", ")", "{", "}", ":"} ->
                        Lexed(lx, Punctuation(c))
                   [] c = "\"" ->
                        LET s == ReadString(lx, <<>>)
                        IN  Lexed(s.lexer, TokV("StrLiteral", s.text))
                   [] IsDigit(c) ->
                        LET num == ReadNumber(lx, <<c>>, FALSE)
                            parsed == ParseI64(num.text)
                        IN  IF num.is_float
                            THEN Lexed(num.lexer, TokV("Double", ParseF64(num.text)))
                            ELSE IF parsed.ok
                            THEN Lexed(num.lexer, TokV("Number", parsed.val))
                            ELSE LexPanic(num.lexer, parsed.msg)
                   [] IsAlphabetic(c) ->
                        LET ident == ReadIdent(lx, <<c>>)
                        IN  Lexed(ident.lexer, Keyword(ident.text))
                   [] c = "<" -> TwoChar(lx, "LessEqual", "LessThan")
                   [] c = ">" -> TwoChar(lx, "GreaterEqual", "GreaterThan")
                   [] OTHER -> Lexed(lx, TokV("Unknown", c))

----------------------------------------------------------------------------
(* The parser: parser.rs *)

\* Parser.lexer, as the parser sees it: the tokens next_token yields one
\* after the other (EOF for ever after the last), and how many were taken.
\* A token [k |-> "Panic"] stands for the call of next_token that panics.
TokenCursor(toks) == [toks |-> toks, position |-> 0]
TokenAt(lx, k) ==
    IF lx.position + k <= Len(lx.toks) THEN lx.toks[lx.position + k] ELSE EOF

\* A panic unwinds through every frame of the parser: the first one is kept in
\* abort, the parser stands at EOF from then on, and whatever the frames
\* still compute is discarded by the caller of parse.
Abort(P, msg) ==
    IF IsNone(P.abort) THEN [P EXCEPT !.abort = Some(msg), !.current = EOF] ELSE P

\* fn advance(&mut self)
advance(P) ==
    LET t == TokenAt(P.lexer, 1)
    IN  IF ~IsNone(P.abort) THEN P
        ELSE IF t.k = "Panic" THEN Abort(P, t.v)
        ELSE [P EXCEPT !.current = t, !.lexer.position = @ + 1]

\* Parser::new
NewParser(lx) == advance([lexer |-> lx, current |-> EOF, abort |-> None])

\* self.current == Token::name, for the tokens without payload
Is(P, name) == P.current.k = name

\* What a parse function leaves: the parser and the Option it returns
R(P, res) == [P |-> P, res |-> res]
NoneAt(P) == R(P, None)

\* The expression an operator token builds
ExprOf(t) ==
    CASE t = "Plus" -> "Add"
      [] t = "Minus" -> "Sub"
      [] t = "Star" -> "Mul"
      [] t = "Slash" -> "Div"
      [] t = "Percent" -> "Mod"
      [] OTHER -> t

\* parse_stmt and parse_expr are called through PCall by the functions they call
RECURSIVE PCall(_)
call_parse_stmt(P) == PCall([op |-> "parse_stmt", P |-> P])
call_parse_expr(P) == PCall([op |-> "parse_expr", P |-> P])

\* `loop { e = parse_expr()?; push; if Comma { advance } else { break } }`
RECURSIVE ExprList(_, _)
ExprList(P, acc) ==
    LET e == call_parse_expr(P)
    IN  IF IsNone(e.res) THEN e
        ELSE IF Is(e.P, "Comma") THEN ExprList(advance(e.P), Append(acc, e.res.v))
        ELSE R(e.P, Some(Append(acc, e.res.v)))

\* fn parse_postfix(&mut self, mut expr: Expr) -> Option<Expr>
RECURSIVE parse_postfix(_, _)
parse_postfix(P, expr) ==
    LET index == call_parse_expr(advance(P))
    IN  IF Is(P, "LBracket")
        THEN IF IsNone(index.res) THEN index
             ELSE IF ~Is(index.P, "RBracket")
             THEN NoneAt(Abort(index.P, <<"E", "x", "p", "e", "c", "t", "e", "d", " ", "c", "l", "o", "s", "i", "n", "g", " ", "b", "r", "a", "c", "k", "e", "t", " ", "f", "o", "r", " ", "i", "n", "d", "e", "x">>))
             ELSE parse_postfix(advance(index.P), Index(expr, index.res.v))
        ELSE R(P, Some(expr))

\* The match of parse_term: the term before its postfix
Term(P) ==
    LET p1 == advance(P)
        p2 == advance(p1)
        args == IF Is(p2, "RParen") THEN R(p2, Some(<<>>)) ELSE ExprList(p2, <<>>)
        elements == IF Is(p1, "RBracket") THEN R(p1, Some(<<>>)) ELSE ExprList(p1, <<>>)
        inner == call_parse_expr(p1)
    IN  CASE Is(P, "Number") -> R(p1, Some(Number(P.current.v)))
          [] Is(P, "Double") -> R(p1, Some(Double(P.current.v.n, P.current.v.d)))
          [] Is(P, "BoolLiteral") -> R(p1, Some(Bool(P.current.v)))
          [] Is(P, "StrLiteral") -> R(p1, Some(StrLiteral(P.current.v)))
          [] Is(P, "Ident") ->
                IF ~Is(p1, "LParen") THEN R(p1, Some(Var(P.current.v)))
                ELSE IF IsNone(args.res) THEN args
                ELSE IF ~Is(args.P, "RParen") THEN NoneAt(args.P)
                ELSE R(advance(args.P), Some(FunctionCall(P.current.v, args.res.v)))
          [] Is(P, "LBracket") ->
                IF IsNone(elements.res) THEN elements
                ELSE IF ~Is(elements.P, "RBracket")
                THEN NoneAt(Abort(elements.P, <<"E", "x", "p", "e", "c", "t", "e", "d", " ", "c", "l", "o", "s", "i", "n", "g", " ", "b", "r", "a", "c", "k", "e", "t", " ", "f", "o", "r", " ", "a", "r", "r", "a", "y", " ", "l", "i", "t", "e", "r", "a", "l">>))
                ELSE R(advance(elements.P), Some(ArrayLiteral(elements.res.v)))
          [] Is(P, "LParen") ->
                IF IsNone(inner.res) THEN inner
                ELSE IF ~Is(inner.P, "RParen") THEN NoneAt(inner.P)
                ELSE R(advance(inner.P), inner.res)
          [] OTHER -> NoneAt(P)

\* fn parse_term(&mut self) -> Option<Expr>
parse_term(P) ==
    LET term == Term(P)
    IN  IF IsNone(term.res) THEN term ELSE parse_postfix(term.P, term.res.v)

\* `Some(Expr::Not(Box::new(expr)))` and `Some(Expr::Neg(Box::new(expr)))`
Wrap(op, expr) == IF IsNone(expr.res) THEN expr ELSE R(expr.P, Some(Unary(op, expr.res.v)))

\* fn parse_unary_expr(&mut self) -> Option<Expr>
RECURSIVE parse_unary_expr(_)
parse_unary_expr(P) ==
    IF Is(P, "Not") THEN Wrap("Not", parse_unary_expr(advance(P)))
    ELSE IF Is(P, "Minus") THEN Wrap("Neg", parse_unary_expr(advance(P)))
    ELSE parse_term(P)

\* The levels with the additive operators binding tighter than the
\* multiplicative ones
LevelOps_AddFirst(level) ==
    CASE level = 1 -> {"Plus", "Minus"}
      [] level = 2 -> {"Star", "Slash", "Percent"}
      [] level = 3 -> {"LessThan", "GreaterThan", "LessEqual", "GreaterEqual"}
      [] level = 4 -> {"Eq", "Neq"}
      [] level = 5 -> {"And"}
      [] level = 6 -> {"Or"}

(* The six binary levels, from the tightest: parse_mul_expr, parse_add_expr,
   parse_rel_expr, parse_equality_expr, parse_and_expr, parse_or_expr.  Each
   is `let mut left = below()?; while self.current is an operator of the
   level { advance; right = below()?; left = the operation }; Some(left)`,
   where below is the level before it and parse_unary_expr for the first. *)
LevelOps(level) ==
    CASE level = 1 -> {"Star", "Slash", "Percent"}
      [] level = 2 -> {"Plus", "Minus"}
      [] level = 3 -> {"LessThan", "GreaterThan", "LessEqual", "GreaterEqual"}
      [] level = 4 -> {"Eq", "Neq"}
      [] level = 5 -> {"And"}
      [] level = 6 -> {"Or"}

\* `left = Expr::op(Box::new(left), Box::new(right))` after `right = below()?`
Combine(op, left, right) ==
    IF IsNone(right.res) THEN right
    ELSE R(right.P, Some(Binary(ExprOf(op), left, right.res.v)))

\* The loops of the levels from `level` to `top`, one after the other, on the
\* left operand r that the levels below `level` have parsed; the right
\* operand of a level is parsed by the levels below it, which are none for
\* the first level.
RECURSIVE Climb(_, _, _)
Climb(r, level, top) ==
    IF IsNone(r.res) \/ level > top THEN r
    ELSE IF r.P.current.k \in LevelOps(level)
    THEN Climb(Combine(r.P.current.k, r.res.v,
                       Climb(parse_unary_expr(advance(r.P)), 1, level - 1)),
               level, top)
    ELSE IF level >= top THEN r
    ELSE Climb(r, level + 1, top)

parse_mul_expr(P) == Climb(parse_unary_expr(P), 1, 1)
parse_add_expr(P) == Climb(parse_unary_expr(P), 1, 2)
parse_rel_expr(P) == Climb(parse_unary_expr(P), 1, 3)
parse_equality_expr(P) == Climb(parse_unary_expr(P), 1, 4)
parse_and_expr(P) == Climb(parse_unary_expr(P), 1, 5)
parse_or_expr(P) == Climb(parse_unary_expr(P), 1, 6)

\* fn parse_expr(&mut self) -> Option<Expr>
parse_expr(P) == parse_or_expr(P)

\* fn is_assignment(&self) -> bool: a clone of the lexer, which already
\* stands after the identifier, yields two tokens and the second is examined
is_assignment(P) ==
    LET skipped == TokenAt(P.lexer, 1)
        next_token_ == TokenAt(P.lexer, 2)
    IN  IF ~Is(P, "Ident") THEN Ok(FALSE)
        ELSE IF skipped.k = "Panic" THEN Fail(skipped.v)
        ELSE IF next_token_.k = "Panic" THEN Fail(next_token_.v)
        ELSE Ok(next_token_.k = "Assign")

\* fn parse_type(&mut self) -> Option<Type>
parse_type(P) ==
    CASE Is(P, "Int") -> R(advance(P), Some("Int"))
      [] Is(P, "Bool") -> R(advance(P), Some("Bool"))
      [] Is(P, "StringType") -> R(advance(P), Some("String"))
      [] Is(P, "DoubleType") -> R(advance(P), Some("Double"))
      [] OTHER -> NoneAt(P)

(* A statement function is a sequence of steps, each of which returns None
   from the function or goes on.  Between the steps, r is the parser together
   with Some(the parts of the statement parsed so far), or None once a step
   has returned None. *)
Start(P) == R(P, Some(<<>>))

\* `if self.current != Token::name { return None; } self.advance();`
Expect(r, name) ==
    IF IsNone(r.res) THEN r
    ELSE IF ~Is(r.P, name) THEN NoneAt(r.P)
    ELSE R(advance(r.P), r.res)

\* `let part = q?;` where q was parsed from the parser of the step before
Keep(parts, q) == IF IsNone(q.res) THEN q ELSE R(q.P, Some(Append(parts, q.res.v)))
\* `let part = Some(q?);`
KeepSome(parts, q) == IF IsNone(q.res) THEN q ELSE R(q.P, Some(Append(parts, q.res)))
\* `let part = q;`, an Option that may be None (`q.map(Box::new)`)
KeepOption(parts, q) == R(q.P, Some(Append(parts, q.res)))
\* `let part = None;`
KeepNone(r) == R(r.P, Some(Append(r.res.v, None)))

\* `let expr = self.parse_expr()?;`
ThenExpr(r) == IF IsNone(r.res) THEN r ELSE Keep(r.res.v, call_parse_expr(r.P))

\* `let name = if let Token::Ident(n) = &self.current { n.clone() } else
\* { return None; }; self.advance();`
ThenIdent(r) ==
    IF IsNone(r.res) THEN r
    ELSE IF ~Is(r.P, "Ident") THEN NoneAt(r.P)
    ELSE R(advance(r.P), Some(Append(r.res.v, r.P.current.v)))

\* `(` expression `)`
ThenCondition(r) == Expect(ThenExpr(Expect(r, "LParen")), "RParen")

\* `while self.current != RBrace && self.current != EOF { parse_stmt or advance }`
RECURSIVE BlockLoop(_, _)
BlockLoop(P, body) ==
    LET stmt == call_parse_stmt(P)
    IN  IF ~Is(P, "RBrace") /\ ~Is(P, "EOF")
        THEN IF IsNone(stmt.res) THEN BlockLoop(advance(stmt.P), body)
             ELSE BlockLoop(stmt.P, Append(body, stmt.res.v))
        ELSE R(P, Some(body))

\* `{` statements `}`: the opening brace, the loop and the closing brace
Block(P) ==
    IF ~Is(P, "LBrace") THEN NoneAt(P)
    ELSE Expect(BlockLoop(advance(P), <<>>), "RBrace")

ThenBlock(r) == IF IsNone(r.res) THEN r ELSE Keep(r.res.v, Block(r.P))

\* fn parse_expr_stmt(&mut self) -> Option<Stmt>
BuildExprStmt(r) == IF IsNone(r.res) THEN r ELSE R(r.P, Some(ExprStmt(r.res.v[1])))
parse_expr_stmt(P) == BuildExprStmt(Expect(ThenExpr(Start(P)), "Semicolon"))

\* The optional `: type` of a let statement, Type::Int without it
ThenLetType(r) ==
    IF IsNone(r.res) THEN r
    ELSE IF Is(r.P, "Colon") THEN Keep(r.res.v, parse_type(advance(r.P)))
    ELSE R(r.P, Some(Append(r.res.v, "Int")))

\* fn parse_let_stmt_no_semicolon(&mut self) -> Option<Stmt>
BuildLet(r) ==
    IF IsNone(r.res) THEN r ELSE R(r.P, Some(Let(r.res.v[2], r.res.v[1], r.res.v[3])))
parse_let_stmt_no_semicolon(P) ==
    BuildLet(ThenExpr(Expect(ThenLetType(ThenIdent(Start(advance(P)))), "Assign")))

\* fn parse_let_stmt(&mut self) -> Option<Stmt>
parse_let_stmt(P) == Expect(parse_let_stmt_no_semicolon(P), "Semicolon")

\* fn parse_assign_stmt_no_semicolon(&mut self) -> Option<Stmt>
BuildAssign(r) == IF IsNone(r.res) THEN r ELSE R(r.P, Some(Assign(r.res.v[1], r.res.v[2])))
parse_assign_stmt_no_semicolon(P) ==
    BuildAssign(ThenExpr(Expect(ThenIdent(Start(P)), "Assign")))

\* fn parse_assign_stmt(&mut self) -> Option<Stmt>
parse_assign_stmt(P) == Expect(parse_assign_stmt_no_semicolon(P), "Semicolon")

\* fn parse_print_stmt(&mut self) -> Option<Stmt>
BuildPrint(r) == IF IsNone(r.res) THEN r ELSE R(r.P, Some(PrintS(r.res.v[1])))
parse_print_stmt(P) == BuildPrint(Expect(ThenCondition(Start(advance(P))), "Semicolon"))

\* fn parse_while_stmt(&mut self) -> Option<Stmt>
BuildWhile(r) == IF IsNone(r.res) THEN r ELSE R(r.P, Some(While(r.res.v[1], r.res.v[2])))
parse_while_stmt(P) == BuildWhile(ThenBlock(ThenCondition(Start(advance(P)))))

\* `while self.current == Token::Elif { ... }` of parse_if_stmt
RECURSIVE ElifLoop(_, _)
ElifNext(branches, r) ==
    IF IsNone(r.res) THEN r
    ELSE ElifLoop(r.P, Append(branches, <<r.res.v[1], r.res.v[2]>>))
ElifLoop(P, branches) ==
    IF Is(P, "Elif") THEN ElifNext(branches, ThenBlock(ThenCondition(Start(advance(P)))))
    ELSE R(P, Some(branches))

ThenElifs(r) == IF IsNone(r.res) THEN r ELSE Keep(r.res.v, ElifLoop(r.P, <<>>))

\* The optional else block
ThenElse(r) ==
    IF IsNone(r.res) THEN r
    ELSE IF Is(r.P, "Else") THEN KeepSome(r.res.v, Block(advance(r.P)))
    ELSE KeepNone(r)

\* fn parse_if_stmt(&mut self) -> Option<Stmt>
BuildIf(r) ==
    IF IsNone(r.res) THEN r
    ELSE R(r.P, Some(If(r.res.v[1], r.res.v[2], r.res.v[3], r.res.v[4])))
parse_if_stmt(P) ==
    BuildIf(ThenElse(ThenElifs(ThenBlock(ThenCondition(Start(advance(P)))))))

\* The optional init statement of a for loop
ThenForInit(r) ==
    IF IsNone(r.res) THEN r
    ELSE IF Is(r.P, "Semicolon") THEN KeepNone(r)
    ELSE IF Is(r.P, "Let") THEN KeepOption(r.res.v, parse_let_stmt_no_semicolon(r.P))
    ELSE IF Is(r.P, "Ident") THEN KeepOption(r.res.v, parse_assign_stmt_no_semicolon(r.P))
    ELSE NoneAt(r.P)

\* The optional condition of a for loop
ThenForCondition(r) ==
    IF IsNone(r.res) THEN r
    ELSE IF Is(r.P, "Semicolon") THEN KeepNone(r)
    ELSE KeepOption(r.res.v, call_parse_expr(r.P))

\* The optional update statement of a for loop
ThenForUpdate(r) ==
    IF IsNone(r.res) THEN r
    ELSE IF Is(r.P, "RParen") THEN KeepNone(r)
    ELSE IF Is(r.P, "Ident") THEN KeepOption(r.res.v, parse_assign_stmt_no_semicolon(r.P))
    ELSE NoneAt(r.P)

\* fn parse_for_stmt(&mut self) -> Option<Stmt>
BuildFor(r) ==
    IF IsNone(r.res) THEN r
    ELSE R(r.P, Some(For(r.res.v[1], r.res.v[2], r.res.v[3], r.res.v[4])))
ForHeader(P) ==
    Expect(ThenForUpdate(Expect(ThenForCondition(Expect(ThenForInit(
        Expect(Start(advance(P)), "LParen")), "Semicolon")), "Semicolon")), "RParen")
parse_for_stmt(P) == BuildFor(ThenBlock(ForHeader(P)))

\* `while self.current != Token::RParen { name ':' type, ',' }` of parse_function_def
ThenParamType(r) == IF IsNone(r.res) THEN r ELSE Keep(r.res.v, parse_type(r.P))
RECURSIVE ParamLoop(_, _)
ParamNext(params, r) ==
    IF IsNone(r.res) THEN r
    ELSE IF Is(r.P, "Comma") THEN ParamLoop(advance(r.P), Append(params, r.res.v))
    ELSE IF ~Is(r.P, "RParen") THEN NoneAt(r.P)
    ELSE ParamLoop(r.P, Append(params, r.res.v))
ParamLoop(P, params) ==
    IF ~Is(P, "RParen")
    THEN ParamNext(params, ThenParamType(Expect(ThenIdent(Start(P)), "Colon")))
    ELSE R(P, Some(params))

\* The parameters and the `)` after them
ThenParams(r) ==
    IF IsNone(r.res) THEN r
    ELSE Expect(Keep(r.res.v, ParamLoop(r.P, <<>>)), "RParen")

\* The optional `: type` after the parameters
ThenReturnType(r) ==
    IF IsNone(r.res) THEN r
    ELSE IF Is(r.P, "Colon") THEN KeepSome(r.res.v, parse_type(advance(r.P)))
    ELSE KeepNone(r)

\* fn parse_function_def(&mut self) -> Option<Stmt>
BuildFunctionDef(r) ==
    IF IsNone(r.res) THEN r
    ELSE R(r.P, Some(FunctionDefS(r.res.v[1], r.res.v[2], r.res.v[3], r.res.v[4])))
parse_function_def(P) ==
    BuildFunctionDef(ThenBlock(ThenReturnType(ThenParams(
        Expect(ThenIdent(Start(advance(P))), "LParen")))))

\* The optional expression of a return statement
ThenReturnExpr(r) ==
    IF Is(r.P, "Semicolon") THEN KeepNone(r) ELSE KeepSome(r.res.v, call_parse_expr(r.P))

\* fn parse_return_stmt(&mut self) -> Option<Stmt>
BuildReturn(r) == IF IsNone(r.res) THEN r ELSE R(r.P, Some(Return(r.res.v[1])))
parse_return_stmt(P) == BuildReturn(Expect(ThenReturnExpr(Start(advance(P))), "Semicolon"))

\* fn parse_stmt(&mut self) -> Option<Stmt>
parse_stmt(P) ==
    LET assignment == is_assignment(P)
    IN  CASE Is(P, "Let") -> parse_let_stmt(P)
          [] Is(P, "Print") -> parse_print_stmt(P)
          [] Is(P, "While") -> parse_while_stmt(P)
          [] Is(P, "For") -> parse_for_stmt(P)
          [] Is(P, "If") -> parse_if_stmt(P)
          [] Is(P, "Funct") -> parse_function_def(P)
          [] Is(P, "Return") -> parse_return_stmt(P)
          [] Is(P, "Ident") ->
                IF ~assignment.ok THEN NoneAt(Abort(P, assignment.msg))
                ELSE IF assignment.val THEN parse_assign_stmt(P)
                ELSE parse_expr_stmt(P)
          [] OTHER -> NoneAt(P)

PCall(c) ==
    CASE c.op = "parse_stmt" -> parse_stmt(c.P)
      [] c.op = "parse_expr" -> parse_expr(c.P)

----------------------------------------------------------------------------
(* The inputs of the lexer, the parser and the pipeline *)

\* Every token of an input, as Parser::new and advance obtain them
RECURSIVE TokenStream(_)
TokenStream(lx) ==
    LET r == next_token(lx)
    IN  IF ~r.ok THEN <<TokV("Panic", r.msg)>>
        ELSE IF r.tok.k = "EOF" THEN <<>>
        ELSE <<r.tok>> \o TokenStream(r.lexer)

LexAlphabet == {"1", "9", ".", "a", " ", "=", "\"", "<", "#"}

LexSamples ==
    { <<"l", "e", "t", " ", "p", "r", "i", "n", "t", " ", "w", "h", "i", "l", "e", " ", "f", "o", "r", " ", "i", "f", " ", "e", "l", "i", "f", " ", "e", "l", "s", "e", " ", "f", "u", "n", "c", "t", " ", "r", "e", "t", "u", "r", "n", " ", "P", "r", "i", "n", "t", " ", "l", "e", "t", "s", " ", "x", "1", " ", "i", "f", "f", "y">>,
      <<"l", "e", "t", " ", "w", "o", "o", "f", " ", "i", "n", "t", " ", "b", "o", "o", "l", " ", "s", "t", "r", "i", "n", "g", " ", "d", "o", "u", "b", "l", "e", " ", "w", "h", "i", "l", "e", " ", "t", "r", "u", "e", " ", "f", "a", "l", "s", "e", " ", "l", "e", "t", "s", " ", "L", "e", "t">>,
      <<"x", "1", " ", "=", " ", "1", "2", ".", "5", ";", " ", "y", "<", "=", "x", " ", ">", "=", " ", "3", " ", "=", "=", " ", "4", " ", ":", " ", "(", "a", "+", "b", ")", "*", "c", "/", "d", "%", "e", " ", "-", " ", "{", "f", "}">>,
      <<"1", ".", "2", ".", "3">>,
      <<"0", "0", "7", " ", "0", ".", "5", "0", " ", "5", ".">>,
      <<"w", "o", "o", "f", "(", "\"">> \o <<NL>> \o <<"a", " ", "b">>,
      <<"\"", "a", "\\", "n", "\"", " ", "\"", "\\", "\"", "\"">>,
      <<"[", "1", ",", " ", "2", "]", " ", "&", " ", "_", " ", "!", " ", "x">>,
      <<"9", "9", "9", "9", "9", "9", "9", "9", "9", "9", "9", "9", "9", "9", "9", "9", "9", "9", "9", "9">>,
      <<"9", "2", "2", "3", "3", "7", "2", "0", "3", "6", "8", "5", "4", "7", "7", "5", "8", "0", "8">>,
      <<"x", " ", "=", " ", "0", "0", "0", "0", "0", "0", "0", "0", "0", "0", "0", "0", "0", "0", "0", "0", "0", "0", "0", "0", "0", "1", "2", ";">> }

LexInputs == SeqsUpTo(LexAlphabet, MaxLexLen) \cup LexSamples

\* The statements the sources of the pipeline are made of
Snippets ==
    { <<"l", "e", "t", " ", "x", " ", "=", " ", "1", "0", ";">>,
      <<"w", "o", "o", "f", "(", "x", ")", ";">>,
      <<"x", " ", "=", " ", "x", " ", "+", " ", "1", ";">>,
      <<"p", "r", "i", "n", "t", "(", "x", ")", ";">>,
      <<"w", "o", "o", "f", "(", "1", " ", "/", " ", "0", ")", ";">>,
      <<"w", "h", "i", "l", "e", " ", "(", "t", "r", "u", "e", ")", " ", "{", " ", "}">>,
      <<"w", "o", "o", "f", "(", "9", "9", "9", "9", "9", "9", "9", "9", "9", "9", "9", "9", "9", "9", "9", "9", "9", "9", "9", "9", ")", ";">>,
      <<"w", "o", "o", "f", "(", "E", "x", "p", "e", "c", "t", "e", "d", ")", ";">>,
      <<"w", "h", "i", "l", "e", " ", "(", "x", " ", "<", " ", "1", "2", ")", " ", "{", " ", "w", "o", "o", "f", "(", "x", ")", ";", " ", "l", "e", "t", " ", "x", " ", "=", " ", "x", " ", "+", " ", "1", ";", " ", "}">>,
      <<"l", "e", "t", " ", "s", " ", ":", " ", "s", "t", "r", "i", "n", "g", " ", "=", " ", "\"", "a", "\"", " ", "+", " ", "1", ".", "5", ";">>,
      <<"w", "o", "o", "f", "(", "s">>,
      <<"w", "o", "o", "f", "(", "0", " ", "-", " ", "x", " ", "*", " ", "2", " ", "=", "=", " ", "-", "2", "0", ")", ";">>,
      <<"#", " ", "x", ";">> }

RECURSIVE Join(_)
Join(ss) == IF ss = <<>> THEN <<>> ELSE Head(ss) \o <<" ">> \o Join(Tail(ss))

\* let x = 10; print(x); x = x + 1; print(x);
AssignSourcePrint == Join(<< <<"l", "e", "t", " ", "x", " ", "=", " ", "1", "0", ";">>, <<"p", "r", "i", "n", "t", "(", "x", ")", ";">>, <<"x", " ", "=", " ", "x", " ", "+", " ", "1", ";">>, <<"p", "r", "i", "n", "t", "(", "x", ")", ";">> >>)
\* the same program with the print keyword as the lexer knows it
AssignSourceWoof == Join(<< <<"l", "e", "t", " ", "x", " ", "=", " ", "1", "0", ";">>, <<"w", "o", "o", "f", "(", "x", ")", ";">>, <<"x", " ", "=", " ", "x", " ", "+", " ", "1", ";">>, <<"w", "o", "o", "f", "(", "x", ")", ";">> >>)
\* the source of main.rs
MainSource ==
    <<NL>> \o <<"l", "e", "t", " ", "c", "o", "u", "n", "t", " ", "=", " ", "1", "0", ";">> \o <<NL>> \o <<"p", "r", "i", "n", "t", "(", "c", "o", "u", "n", "t", ")", ";">> \o <<NL>>
        \o <<"c", "o", "u", "n", "t", " ", "=", " ", "c", "o", "u", "n", "t", " ", "+", " ", "1", ";">> \o <<NL>> \o <<"p", "r", "i", "n", "t", "(", "c", "o", "u", "n", "t", ")", ";">> \o <<NL>>

Sources ==
    {Join(ss) : ss \in SeqsUpTo(Snippets, MaxSrcStmts)}
        \cup {AssignSourcePrint, AssignSourceWoof, MainSource}

\* The tokens of the streams given to the parser
Id == TokV("Ident", NameX)
One == TokV("Number", 1)
CoreTokens ==
    { Tok("LBracket"), Tok("RBracket"), Tok("Comma"), Tok("Semicolon"), Tok("Assign"),
      Tok("LParen"), Id, One }

RECURSIVE Toks(_)
\* the tokens of a sequence of token names; "x" is the identifier, "1" the number
Toks(names) ==
    IF names = <<>> THEN <<>>
    ELSE << CASE Head(names) = "x" -> Id
              [] Head(names) = "1" -> One
              [] Head(names) = "s" -> TokV("StrLiteral", <<"s">>)
              [] Head(names) = "t" -> TokV("BoolLiteral", TRUE)
              [] Head(names) = "d" -> TokV("Double", [n |-> 5, d |-> 10])
              [] Head(names) = "#" -> TokV("Unknown", "#")
              [] OTHER -> Tok(Head(names)) >> \o Toks(Tail(names))

\* Expressions with two or more operators, and the expression each denotes by
\* the precedence and the associativity of the operators; print(e); is the
\* statement they are parsed in
X == Var(NameX)
ExprCases ==
    { \* x + 1 * x     -x * 1
      << <<"x", "Plus", "1", "Star", "x">>, Binary("Add", X, Binary("Mul", Number(1), X)) >>,
      << <<"Minus", "x", "Star", "1">>, Binary("Mul", Unary("Neg", X), Number(1)) >>,
      \* x * 1 / x     x - 1 + x     x < 1 >= x     x == 1 != x
      << <<"x", "Star", "1", "Slash", "x">>, Binary("Div", Binary("Mul", X, Number(1)), X) >>,
      << <<"x", "Minus", "1", "Plus", "x">>, Binary("Add", Binary("Sub", X, Number(1)), X) >>,
      << <<"x", "LessThan", "1", "GreaterEqual", "x">>,
         Binary("GreaterEqual", Binary("LessThan", X, Number(1)), X) >>,
      << <<"x", "Eq", "1", "Neq", "x">>, Binary("Neq", Binary("Eq", X, Number(1)), X) >>,
      \* x and 1 and t     x or 1 or t
      << <<"x", "And", "1", "And", "t">>, Binary("And", Binary("And", X, Number(1)), Bool(TRUE)) >>,
      << <<"x", "Or", "1", "Or", "t">>, Binary("Or", Binary("Or", X, Number(1)), Bool(TRUE)) >>,
      \* x or 1 and x == 1 < x + 1 * not x
      << <<"x", "Or", "1", "And", "x", "Eq", "1", "LessThan", "x", "Plus", "1", "Star",
           "Not", "x">>,
         Binary("Or", X, Binary("And", Number(1), Binary("Eq", X, Binary("LessThan",
             Number(1), Binary("Add", X, Binary("Mul", Number(1), Unary("Not", X))))))) >>,
      \* - x % 1 - x > 1 != x and 1 or x
      << <<"Minus", "x", "Percent", "1", "Minus", "x", "GreaterThan", "1", "Neq", "x", "And",
           "1", "Or", "x">>,
         Binary("Or", Binary("And", Binary("Neq", Binary("GreaterThan", Binary("Sub",
             Binary("Mod", Unary("Neg", X), Number(1)), X), Number(1)), X), Number(1)), X) >>,
      \* x * (1 + x)[1]
      << <<"x", "Star", "LParen", "1", "Plus", "x", "RParen", "LBracket", "1", "RBracket">>,
         Binary("Mul", X, Index(Binary("Add", Number(1), X), Number(1))) >> }
PrintOf(names) == Toks(<<"Print", "LParen">> \o names \o <<"RParen", "Semicolon">>)
ExprSamples == {PrintOf(c[1]) : c \in ExprCases}

TokenSamples ==
    { \* funct x(x: int, x: bool): int { return x[1] + 1; } x(1, x);
      Toks(<<"Funct", "x", "LParen", "x", "Colon", "Int", "Comma", "x", "Colon", "Bool",
             "RParen", "Colon", "Int", "LBrace", "Return", "x", "LBracket", "1", "RBracket",
             "Plus", "1", "Semicolon", "RBrace", "x", "LParen", "1", "Comma", "x", "RParen",
             "Semicolon">>),
      \* if (x) { print(1); } elif (true) { } else { x = = [1, 2]; return; }
      Toks(<<"If", "LParen", "x", "RParen", "LBrace", "Print", "LParen", "1", "RParen",
             "Semicolon", "RBrace", "Elif", "LParen", "t", "RParen", "LBrace", "RBrace",
             "Else", "LBrace", "x", "Assign", "Assign", "LBracket", "1", "Comma", "1",
             "RBracket", "Semicolon", "Return", "Semicolon", "RBrace">>),
      \* for (let x = 1; x < 1; x = x + 1) { print(x); }
      Toks(<<"For", "LParen", "Let", "x", "Assign", "1", "Semicolon", "x", "LessThan", "1",
             "Semicolon", "x", "Assign", "x", "Plus", "1", "RParen", "LBrace", "Print",
             "LParen", "x", "RParen", "Semicolon", "RBrace">>),
      \* for (;;) { } for (x = 1; ; ) { # }
      Toks(<<"For", "LParen", "Semicolon", "Semicolon", "RParen", "LBrace", "RBrace",
             "For", "LParen", "x", "Assign", "1", "Semicolon", "Semicolon", "RParen",
             "LBrace", "#", "RBrace">>),
      \* let x : double = [1, [s], 0.5]; x[1][1];
      Toks(<<"Let", "x", "Colon", "DoubleType", "Assign", "LBracket", "1", "Comma",
             "LBracket", "s", "RBracket", "Comma", "d", "RBracket", "Semicolon", "x",
             "LBracket", "1", "RBracket", "LBracket", "1", "RBracket", "Semicolon">>),
      \* print(1); print(x[1); print(1);
      Toks(<<"Print", "LParen", "1", "RParen", "Semicolon", "Print", "LParen", "x",
             "LBracket", "1", "RParen", "Semicolon", "Print", "LParen", "1", "RParen",
             "Semicolon">>),
      \* let x = [1, 1; print(1);
      Toks(<<"Let", "x", "Assign", "LBracket", "1", "Comma", "1", "Semicolon", "Print",
             "LParen", "1", "RParen", "Semicolon">>),
      \* while (not x and x or -1 == 1 != x) { return x * (1 - x) / 1 % 1 >= 1; }
      Toks(<<"While", "LParen", "Not", "x", "And", "x", "Or", "Minus", "1", "Eq", "1",
             "Neq", "x", "RParen", "LBrace", "Return", "x", "Star", "LParen", "1", "Minus",
             "x", "RParen", "Slash", "1", "Percent", "1", "GreaterEqual", "1", "Semicolon",
             "RBrace">>),
      \* x(1);
      Toks(<<"x", "LParen", "1", "RParen", "Semicolon">>),
      \* let 1 x; while (x) { let 1 x; print(x); } print(1);
      Toks(<<"Let", "1", "x", "Semicolon", "While", "LParen", "x", "RParen", "LBrace",
             "Let", "1", "x", "Semicolon", "Print", "LParen", "x", "RParen", "Semicolon",
             "RBrace", "Print", "LParen", "1", "RParen", "Semicolon">>),
      \* while (x) { x; print(x
      Toks(<<"While", "LParen", "x", "RParen", "LBrace", "x", "Semicolon", "Print",
             "LParen", "x">>),
      \* funct x(x: int,
      Toks(<<"Funct", "x", "LParen", "x", "Colon", "Int", "Comma">>),
      \* for (let x = 1; x < 1; x = 1) { x(1,
      Toks(<<"For", "LParen", "Let", "x", "Assign", "1", "Semicolon", "x", "LessThan", "1",
             "Semicolon", "x", "Assign", "1", "RParen", "LBrace", "x", "LParen", "1",
             "Comma">>),
      \* print 1; let 1; while (x { x; let x = 1; print(x);
      Toks(<<"Print", "1", "Semicolon", "Let", "1", "Semicolon", "While", "LParen", "x",
             "LBrace", "x", "Semicolon", "Let", "x", "Assign", "1", "Semicolon", "Print",
             "LParen", "x", "RParen", "Semicolon">>) }

TokenStreams ==
    SeqsUpTo(CoreTokens, MaxTokens) \cup TokenSamples
        \cup ExprSamples
        \cup {toks \in {TokenStream(NewLexer(s)) : s \in LexSamples} :
                 \A i \in 1..Len(toks) : toks[i].k # "Panic"}

----------------------------------------------------------------------------
(* The pipeline of run_finn_code, one step of a loop at a time *)

runVars == <<program, idx, interp, output>>
frontVars == <<source, lexer, token, parser, stmts>>

\* The parts of the state a specification does not use
IdleFront ==
    /\ source = <<>>
    /\ lexer = NewLexer(<<>>)
    /\ token = None
    /\ parser = NewParser(TokenCursor(<<>>))
    /\ stmts = <<>>
IdleRun ==
    /\ program = <<>>
    /\ idx = 0
    /\ interp = NewInterpreter
    /\ output = <<>>

\* Interpreter::run on a given program
Init ==
    /\ program \in Programs
    /\ idx = 0
    /\ interp = NewInterpreter
    /\ output = <<>>
    /\ pc = "run"
    /\ result = None
    /\ response = None
    /\ runs = <<>>
    /\ IdleFront

\* Lexer::new(source)
InitLex ==
    /\ source \in LexInputs
    /\ lexer = NewLexer(source)
    /\ token = None
    /\ parser = NewParser(TokenCursor(<<>>))
    /\ stmts = <<>>
    /\ pc = "lex"
    /\ result = None
    /\ response = None
    /\ runs = <<>>
    /\ IdleRun

\* Parser::new(lexer) on a given token stream
InitParse ==
    /\ source = <<>>
    /\ lexer = NewLexer(<<>>)
    /\ token = None
    /\ \E toks \in TokenStreams : parser = NewParser(TokenCursor(toks))
    /\ stmts = <<>>
    /\ pc = "parse"
    /\ result = None
    /\ response = None
    /\ runs = <<>>
    /\ IdleRun

\* run_finn_code(source), before the closure runs
InitPipe ==
    /\ source \in Sources
    /\ lexer = NewLexer(source)
    /\ token = None
    /\ parser = NewParser(TokenCursor(<<>>))
    /\ stmts = <<>>
    /\ pc = "new"
    /\ result = None
    /\ response = None
    /\ runs = <<>>
    /\ IdleRun

\* One call of next_token by a client of the lexer
NextToken ==
    /\ pc = "lex"
    /\ lexer.position < Len(source) + MaxExtraCalls
    /\ LET r == next_token(lexer)
       IN  /\ lexer' = r.lexer
           /\ IF r.ok
              THEN /\ token' = Some(r.tok)
                   /\ UNCHANGED <<pc, result>>
              ELSE /\ pc' = "match"
                   /\ result' = catch_unwind(r)
                   /\ UNCHANGED token
    /\ UNCHANGED <<source, parser, stmts, runVars, response, runs>>

\* Where the parser goes on: to the next iteration, or unwinding to catch_unwind
ParserAfter(P) ==
    IF IsNone(P.abort) THEN [pc |-> "parse", result |-> result]
    ELSE [pc |-> "match", result |-> catch_unwind([msg |-> P.abort.v])]

\* Lexer::new and Parser::new: the first token is read
NewParserStep ==
    /\ pc = "new"
    /\ parser' = NewParser(TokenCursor(TokenStream(lexer)))
    /\ pc' = ParserAfter(parser').pc
    /\ result' = ParserAfter(parser').result
    /\ stmts' = <<>>
    /\ UNCHANGED <<source, lexer, token, runVars, response, runs>>

\* The loop of parse without the `self.advance()` of a failed statement
ParseStmt_NoSkip ==
    /\ pc = "parse"
    /\ ~Is(parser, "EOF")
    /\ LET stmt == call_parse_stmt(parser)
           after == stmt.P
       IN  /\ parser' = after
           /\ stmts' = IF IsNone(stmt.res) \/ ~IsNone(after.abort) THEN stmts
                       ELSE Append(stmts, stmt.res.v)
           /\ pc' = ParserAfter(after).pc
           /\ result' = ParserAfter(after).result
    /\ UNCHANGED <<source, lexer, token, runVars, response, runs>>

\* The loop of parse with a recovery that goes back to the first token of the
\* failed statement and skips that one
ParseStmt_Restore ==
    /\ pc = "parse"
    /\ ~Is(parser, "EOF")
    /\ LET stmt == call_parse_stmt(parser)
           after == IF IsNone(stmt.res) /\ IsNone(stmt.P.abort) THEN advance(parser)
                    ELSE IF IsNone(stmt.res) THEN advance(stmt.P) ELSE stmt.P
       IN  /\ parser' = after
           /\ stmts' = IF IsNone(stmt.res) \/ ~IsNone(after.abort) THEN stmts
                       ELSE Append(stmts, stmt.res.v)
           /\ pc' = ParserAfter(after).pc
           /\ result' = ParserAfter(after).result
    /\ UNCHANGED <<source, lexer, token, runVars, response, runs>>

\* One turn of the loop of Parser::parse
ParseStmt ==
    /\ pc = "parse"
    /\ ~Is(parser, "EOF")
    /\ LET stmt == call_parse_stmt(parser)
           after == IF IsNone(stmt.res) THEN advance(stmt.P) ELSE stmt.P
       IN  /\ parser' = after
           /\ stmts' = IF IsNone(stmt.res) \/ ~IsNone(after.abort) THEN stmts
                       ELSE Append(stmts, stmt.res.v)
           /\ pc' = ParserAfter(after).pc
           /\ result' = ParserAfter(after).result
    /\ UNCHANGED <<source, lexer, token, runVars, response, runs>>

\* parse without the condition of its loop: it may return at any token
ParseReturn_Early ==
    /\ pc = "parse"
    /\ program' = stmts
    /\ idx' = 0
    /\ interp' = NewInterpreter
    /\ output' = <<>>
    /\ pc' = "run"
    /\ UNCHANGED <<frontVars, result, response, runs>>

\* The end of Parser::parse and the call of run on the interpreter that is
\* already there, instead of on a new one
ParseReturn_KeepInterpreter ==
    /\ pc = "parse"
    /\ Is(parser, "EOF")
    /\ program' = stmts
    /\ idx' = 0
    /\ output' = <<>>
    /\ pc' = "run"
    /\ UNCHANGED <<interp, frontVars, result, response, runs>>

\* The end of Parser::parse, Interpreter::new, and the call of run
ParseReturn ==
    /\ pc = "parse"
    /\ Is(parser, "EOF")
    /\ program' = stmts
    /\ idx' = 0
    /\ interp' = NewInterpreter
    /\ output' = <<>>
    /\ pc' = "run"
    /\ UNCHANGED <<frontVars, result, response, runs>>

\* One iteration of the loop of Interpreter::run: the statement is executed,
\* its output is appended, the loop is left on a Return, and otherwise the
\* output_buffer is flushed.  A panic unwinds to catch_unwind; an evaluation
\* that does not terminate never returns ("hung"), and one that MaxFuel cuts
\* short is followed no further ("cut").
RunAfter(r) ==
    LET pushed == IF IsNone(r.out) THEN output ELSE output \o r.out.v \o <<NL>>
        flushed == pushed \o r.I.output_buffer
    IN  IF r.abort = "panic"
        THEN [pc |-> "match", interp |-> r.I, output |-> output, result |-> catch_unwind(r)]
        ELSE IF r.abort = "diverge"
        THEN [pc |-> "hung", interp |-> r.I, output |-> output, result |-> result]
        ELSE IF r.abort = "fuel"
        THEN [pc |-> "cut", interp |-> r.I, output |-> output, result |-> result]
        ELSE IF r.ctl.k = "Return"
        THEN [pc |-> "break", interp |-> r.I, output |-> pushed, result |-> result]
        ELSE [pc |-> "run", interp |-> [r.I EXCEPT !.output_buffer = <<>>],
              output |-> flushed, result |-> result]

RunStmt ==
    /\ pc = "run"
    /\ idx < Len(program)
    /\ LET after == RunAfter(call_execute_with_control(program[idx + 1], interp, MaxFuel))
       IN  /\ pc' = after.pc
           /\ interp' = after.interp
           /\ output' = after.output
           /\ result' = after.result
    /\ idx' = idx + 1
    /\ UNCHANGED <<program, frontVars, response, runs>>

\* The end of Interpreter::run: output.trim_end().to_string() is the value of
\* the closure
RunReturn ==
    /\ \/ pc = "run" /\ idx = Len(program)
       \/ pc = "break"
    /\ result' = Returned(TrimEnd(output))
    /\ pc' = "match"
    /\ UNCHANGED <<runVars, frontVars, response, runs>>

\* run_finn_code: the match on the result of catch_unwind
Match ==
    /\ pc = "match"
    /\ result' = MatchResult(result)
    /\ pc' = "done"
    /\ UNCHANGED <<runVars, frontVars, response, runs>>

Next == RunStmt \/ RunReturn \/ Match

Spec == Init /\ [][Next]_vars

NextLex == NextToken

SpecLex == InitLex /\ [][NextLex]_vars

NextParse == ParseStmt \/ ParseReturn

SpecParse == InitParse /\ [][NextParse]_vars

NextPipe == NewParserStep \/ ParseStmt \/ ParseReturn \/ RunStmt \/ RunReturn \/ Match

SpecPipe == InitPipe /\ [][NextPipe]_vars

----------------------------------------------------------------------------
(* Reading the history and the output *)

\* The lines of a text: its pieces between newline characters
RECURSIVE SplitLines(_, _)
SplitLines(s, cur) ==
    IF s = <<>> THEN <<cur>>
    ELSE IF Head(s) = NL THEN <<cur>> \o SplitLines(Tail(s), <<>>)
    ELSE SplitLines(Tail(s), Append(cur, Head(s)))

Lines(s) == IF s = <<>> THEN <<>> ELSE SplitLines(s, <<>>)

RECURSIVE SelectSeqOf(_, _)
\* the texts of the Print events of a log, in order
SelectSeqOf(log, ev) ==
    IF log = <<>> THEN <<>>
    ELSE (IF Head(log).ev = ev THEN <<Head(log).arg>> ELSE <<>>) \o SelectSeqOf(Tail(log), ev)

Printed(log) == SelectSeqOf(log, "Print")

RECURSIVE DropBlank(_)
DropBlank(ls) ==
    IF ls = <<>> THEN <<>>
    ELSE (IF Head(ls) = <<>> THEN <<>> ELSE <<Head(ls)>>) \o DropBlank(Tail(ls))

\* s is t with some elements left out
RECURSIVE IsSubsequence(_, _)
IsSubsequence(s, t) ==
    IF s = <<>> THEN TRUE
    ELSE IF t = <<>> THEN FALSE
    ELSE IF Head(s) = Head(t) THEN IsSubsequence(Tail(s), Tail(t))
    ELSE IsSubsequence(s, Tail(t))

\* The run ended and run_finn_code returned
Finished == pc = "done"

----------------------------------------------------------------------------
(* C1 *)

\* In the history, a Return is the last event of its activation: nothing of
\* the same activation (no statement, no loop condition, no update) follows it.
ReturnIsLast(log) ==
    \A i \in 1..Len(log) : \A j \in 1..Len(log) :
        (i < j /\ log[i].ev = "Return") => log[j].act # log[i].act

\* The value of a call is the payload of the Return executed in the callee
\* (0 when the Return carries none), and 0 when the callee executed none.
CallValueIsPayload(log) ==
    \A j \in 1..Len(log) :
        log[j].ev = "Call" =>
            LET callee == log[j].arg[1]
                returns == {i \in 1..Len(log) : log[i].ev = "Return" /\ log[i].act = callee}
            IN  /\ Cardinality(returns) <= 1
                /\ \A i \in returns :
                      /\ i < j
                      /\ log[j].arg[2] = IF IsNone(log[i].arg) THEN IntV(0) ELSE log[i].arg.v
                /\ returns = {} => log[j].arg[2] = IntV(0)

\* C1: once a return has executed, nothing further is executed in any
\* enclosing statement sequence of the same activation (loops stop iterating,
\* conditionals and function bodies run no further statement), the call's
\* value is that return's payload, run processes no further top-level
\* statement, and the program that defines
\* `funct f(): int { while (true) { return 1; } return 2; }` and prints f()
\* yields "1".
C1_ReturnUnwinds ==
    /\ ReturnIsLast(interp.log)
    /\ CallValueIsPayload(interp.log)
    /\ pc = "break" => interp.log[Len(interp.log)].ev = "Return"
    /\ (Finished /\ program = Prelude \o <<PrintS(Call0(NameF))>>) => result = FinnOk(<<"1">>)

\* A call has returned from inside a loop that is nested in a conditional's
\* sibling position: activation of k, whose Return follows loop conditions,
\* and the caller went on.
C1_Witness ==
    /\ Finished
    /\ \E i \in 1..Len(interp.log) : \E j \in 1..Len(interp.log) :
          /\ i < j
          /\ interp.log[i].ev = "Cond"
          /\ interp.log[j].ev = "Return"
          /\ interp.log[i].act = interp.log[j].act
          /\ interp.log[i].act # 0
          /\ j < Len(interp.log)

----------------------------------------------------------------------------
(* C3 *)

\* C3: every fatal condition raised during evaluation is reported by
\* run_finn_code as RuntimeError, never as ParseError (the programs of this
\* specification are given as syntax trees, so every failure is one of
\* evaluation).
C3_EvaluationFailuresAreRuntimeErrors ==
    Finished => result.k \in {"Ok", "RuntimeError"}

----------------------------------------------------------------------------
(* C4 *)

\* C4: the returned text lists the printed lines in execution order: the
\* lines of the output, in order, are printed texts in the order in which
\* their print statements completed.
C4_OutputInExecutionOrder ==
    (Finished /\ result.k = "Ok") =>
        IsSubsequence(DropBlank(Lines(result.v)), Printed(interp.log))

----------------------------------------------------------------------------
(* C5 *)

\* C5: every print executed in a run that ends without failure contributes
\* exactly one line: the output has as many lines as prints were executed.
C5_OneLinePerPrint ==
    (Finished /\ result.k = "Ok") =>
        Len(Lines(result.v)) = Len(Printed(interp.log))

----------------------------------------------------------------------------
(* C10 *)

IsLiteral(expr) == expr.e \in {"Number", "Bool", "StrLiteral", "Double", "ArrayLiteral"}

\* print(l / r) or print(l % r) with literal operands, r a zero of the type
\* the operator checks
DividesByZero(stmt) ==
    /\ stmt.s = "Print"
    /\ stmt.expr.e \in {"Div", "Mod"}
    /\ IsLiteral(stmt.expr.l)
    /\ \/ stmt.expr.r = Number(0)
       \/ stmt.expr.e = "Div" /\ stmt.expr.r.e = "Double" /\ stmt.expr.r.n = 0

\* Both operands are integer literals, or both are double literals
BothKinds(expr) ==
    \/ expr.l.e = "Number" /\ expr.r.e = "Number"
    \/ expr.e = "Div" /\ expr.l.e = "Double" /\ expr.r.e = "Double"

\* C10: a division or modulo by zero never produces a value: the run fails
\* with a RuntimeError, whatever was printed before, and the statement
\* prints nothing.
C10_DivisionByZeroIsFatal ==
    (pc \in {"match", "done", "run", "break"} /\ idx > 0 /\ DividesByZero(program[idx])) =>
        /\ pc \in {"match", "done"}
        /\ pc = "match" => result.k = "Panicked"
        /\ pc = "done" => result.k = "RuntimeError"
        /\ (BothKinds(program[idx].expr) =>
                result.v = IF program[idx].expr.e = "Div" THEN <<"D", "i", "v", "i", "s", "i", "o", "n", " ", "b", "y", " ", "z", "e", "r", "o">>
                           ELSE <<"M", "o", "d", "u", "l", "o", " ", "b", "y", " ", "z", "e", "r", "o">>)

\* A run that had printed before dividing by zero has returned an error
C10_Witness ==
    /\ Finished
    /\ idx > 0
    /\ DividesByZero(program[idx])
    /\ Printed(interp.log) # <<>>
    /\ result = RuntimeError(<<"D", "i", "v", "i", "s", "i", "o", "n", " ", "b", "y", " ", "z", "e", "r", "o">>)

----------------------------------------------------------------------------
(* C2 *)

\* C2: every abort raised in the lexer, the parser or the interpreter is
\* intercepted once by run_finn_code: what the closure left is either its
\* value or a caught panic, a caught panic becomes Err(ParseError) or
\* Err(RuntimeError) carrying the panic's message, a returned value becomes
\* Ok(output), and nothing happens after run_finn_code has returned.
C2_AbortsAreIntercepted ==
    [][ /\ pc # "done"
        /\ pc' = "match" => result'.k \in {"Returned", "Panicked"}
        /\ (~IsNone(parser'.abort) /\ pc' # "done") =>
                (pc' = "match" /\ result' = [k |-> "Panicked", v |-> parser'.abort.v])
        /\ pc' = "done" =>
              /\ pc = "match"
              /\ result.k = "Returned" => result' = FinnOk(result.v)
              /\ result.k = "Panicked" =>
                    /\ result'.k \in {"ParseError", "RuntimeError"}
                    /\ result'.v = result.v
                    /\ result'.v # <<>> ]_vars

\* run_finn_code has returned an error for a panic raised by the lexer while
\* the parser was reading the tokens of the second statement
C2_Witness ==
    /\ Finished
    /\ ~IsNone(parser.abort)
    /\ stmts # <<>>
    /\ result = RuntimeError(parser.abort.v)

----------------------------------------------------------------------------
(* C6 *)

\* C6: through the whole pipeline, `let x = 10; print(x); x = x + 1;
\* print(x);` outputs "10\n11": the statement `x = x + 1;` is parsed as an
\* assignment and replaces the binding of x (stated for the print keyword as
\* the claim spells it and as the lexer spells it).
C6_AssignmentThroughPipeline ==
    (Finished /\ source \in {AssignSourcePrint, AssignSourceWoof}) =>
        result = FinnOk(<<"1", "0">> \o <<NL>> \o <<"1", "1">>)

----------------------------------------------------------------------------
(* C7 *)

\* C7: for every token stream, parse() returns a list of statements and never
\* aborts, also when the closing bracket of an array literal or of an index
\* expression is missing.
C7_ParseNeverAborts == IsNone(parser.abort) /\ pc \in {"parse", "run"}

----------------------------------------------------------------------------
(* C8 *)

\* C8: for every input and every number of calls, next_token returns a token
\* and never aborts, whatever the length of a digit run.
C8_NextTokenNeverAborts ==
    /\ result.k # "Panicked"
    /\ lexer.position > 0 => ~IsNone(token)

----------------------------------------------------------------------------
(* The HTTP handler: bin/server.rs, run_code *)

\* impl Display for FinnLangError
ErrorToString(error) ==
    (IF error.k = "ParseError" THEN <<"P", "a", "r", "s", "e", " ", "E", "r", "r", "o", "r", ":", " ">> ELSE <<"R", "u", "n", "t", "i", "m", "e", " ", "E", "r", "r", "o", "r", ":", " ">>) \o error.v

\* struct RunResponse
RunResponse(out, error, success) == [output |-> out, error |-> error, success |-> success]

\* timeout(Duration::from_secs(5), future).await: each poll of the Timeout
\* polls the future first and looks at the deadline only when the future is
\* pending.  polled is what the poll of the future gave.
TimeoutPoll(polled, elapsed) ==
    IF polled.k = "Ready" THEN [k |-> "Ok", v |-> polled.v]
    ELSE IF elapsed THEN [k |-> "Err"]
    ELSE [k |-> "Pending"]

\* `match result` of run_code
RunCodeMatch(r) ==
    IF r.k = "Ok" /\ r.v.k = "Ok" THEN RunResponse(r.v.v, None, TRUE)
    ELSE IF r.k = "Ok" THEN RunResponse(<<>>, Some(ErrorToString(r.v)), FALSE)
    ELSE RunResponse(<<>>, Some(<<"C", "o", "d", "e", " ", "e", "x", "e", "c", "u", "t", "i", "o", "n", " ", "t", "i", "m", "e", "d", " ", "o", "u", "t", " ", "(", "5", " ", "s", "e", "c", "o", "n", "d", "s", ")">>), FALSE)

\* The async block has no await point: its only poll runs run_finn_code to
\* its end and is Ready with its value, so the poll of the Timeout returns
\* when run_finn_code has returned, whatever time has passed.
Respond ==
    /\ pc = "done"
    /\ IsNone(response)
    /\ \E elapsed \in BOOLEAN :
          response' = Some(RunCodeMatch(TimeoutPoll([k |-> "Ready", v |-> result], elapsed)))
    /\ UNCHANGED <<runVars, frontVars, pc, result, runs>>

\* The sources of the repeated runs: one declares x and defines g, one reads
\* x, one calls g, one leaves a line in the output buffer, one fails in the
\* parser
RunSources ==
    { <<"l", "e", "t", " ", "x", " ", "=", " ", "1", "0", ";", " ", "f", "u", "n", "c", "t", " ", "g", "(", ")", ":", " ", "i", "n", "t", " ", "{", " ", "w", "o", "o", "f", "(", "x", ")", ";", " ", "r", "e", "t", "u", "r", "n", " ", "7", ";", " ", "}", " ", "w", "o", "o", "f", "(", "g", "(", ")", ")", ";">>,
      <<"w", "o", "o", "f", "(", "x", ")", ";">>,
      <<"w", "o", "o", "f", "(", "g", "(", ")", ")", ";">>,
      <<"f", "u", "n", "c", "t", " ", "g", "(", ")", ":", " ", "i", "n", "t", " ", "{", " ", "w", "o", "o", "f", "(", "1", ")", ";", " ", "r", "e", "t", "u", "r", "n", " ", "7", ";", " ", "}", " ", "r", "e", "t", "u", "r", "n", " ", "g", "(", ")", ";">>,
      <<"l", "e", "t", " ", "x", " ", "=", " ", "5", ";", " ", "x", " ", "=", " ", "x", " ", "+", " ", "1", ";", " ", "w", "o", "o", "f", "(", "x", ")", ";">>,
      <<"l", "e", "t", " ", "x", " ", "=", " ", "9", "9", "9", "9", "9", "9", "9", "9", "9", "9", "9", "9", "9", "9", "9", "9", "9", "9", "9", "9", ";">> }

\* run_finn_code called on one of the sources
InitRuns ==
    /\ source \in RunSources
    /\ lexer = NewLexer(source)
    /\ token = None
    /\ parser = NewParser(TokenCursor(<<>>))
    /\ stmts = <<>>
    /\ pc = "new"
    /\ result = None
    /\ response = None
    /\ runs = <<>>
    /\ IdleRun

\* run_finn_code has returned and is called again, on any of the sources.
\* The call constructs its Lexer; what the previous call left is still in the
\* other variables, and stays there until the call replaces it.
Restart ==
    /\ pc = "done"
    /\ Len(runs) < MaxRuns
    /\ runs' = Append(runs, [source |-> source, result |-> result])
    /\ \E next \in RunSources :
          /\ source' = next
          /\ lexer' = NewLexer(next)
    /\ pc' = "new"
    /\ result' = None
    /\ UNCHANGED <<token, parser, stmts, runVars, response>>

NextRuns == NextPipe \/ Restart

SpecRuns == InitRuns /\ [][NextRuns]_vars

NextServer == NextPipe \/ Respond

SpecServer == InitPipe /\ [][NextServer]_vars

----------------------------------------------------------------------------
(* C9 *)

\* C9: every request handled by run_code receives a response: once
\* run_finn_code has returned, and also when the program it runs never ends
\* (the timeout is to answer then), the handler can give the response.
C9_EveryRequestIsAnswered ==
    (IsNone(response) /\ pc \in {"done", "hung"}) => ENABLED Respond

----------------------------------------------------------------------------
(* C11 *)

\* The last statement executed is print(l and r) or print(l or r) with a
\* boolean literal l
PrintedLogical ==
    /\ idx > 0
    /\ pc \in {"run", "match", "done"}
    /\ program[idx].s = "Print"
    /\ program[idx].expr.e \in {"And", "Or"}
    /\ program[idx].expr.l.e = "Bool"

\* The run has not failed and has printed exactly `text`
PrintedOnly(text) ==
    /\ Printed(interp.log) = <<text>>
    /\ pc = "match" => result = Returned(text)
    /\ pc = "done" => result = FinnOk(text)

\* The run has failed with the message msg
FailedWith(msg) ==
    /\ pc \in {"match", "done"}
    /\ result.k \in {"Panicked", "ParseError", "RuntimeError"}
    /\ result.v = msg

BoolText(b) == IF b THEN <<"t", "r", "u", "e">> ELSE <<"f", "a", "l", "s", "e">>

\* C11: `and` with a false left operand is false and `or` with a true left
\* operand is true without the right operand being evaluated: it raises no
\* failure and no call of it takes place, whatever it is; otherwise the right
\* operand is evaluated and must be a boolean, or the evaluation fails.
C11_ShortCircuit ==
    PrintedLogical =>
        LET e == program[idx].expr
            calls == {i \in 1..Len(interp.log) : interp.log[i].ev = "Call"}
        IN  IF e.l.b = (e.e = "Or")
            THEN PrintedOnly(BoolText(e.l.b)) /\ calls = {} /\ interp.output_buffer = <<>>
            ELSE /\ e.r.e = "Bool" => PrintedOnly(BoolText(e.r.b))
                 /\ (IsLiteral(e.r) /\ e.r.e # "Bool") => FailedWith(ExpectedBoolean(e.e))
                 /\ e.r = DivByZeroIsZero => FailedWith(<<"D", "i", "v", "i", "s", "i", "o", "n", " ", "b", "y", " ", "z", "e", "r", "o">>)
                 /\ e.r = Call0(NameG) => (FailedWith(ExpectedBoolean(e.e)) /\ calls # {})
                 /\ e.r = Binary("Eq", Call0(NameG), Number(7)) =>
                        (Printed(interp.log) = <<<<"a">>, <<"t", "r", "u", "e">>>> /\ calls # {})

\* print(false and (1 / 0 == 0)) has returned "false"
C11_Witness ==
    /\ Finished
    /\ program[idx] = PrintS(Binary("And", Bool(FALSE), DivByZeroIsZero))
    /\ result = FinnOk(<<"f", "a", "l", "s", "e">>)

----------------------------------------------------------------------------
(* C12 *)

\* The statement of a call program that holds the call has been executed
CallExecuted(e) ==
    /\ idx > Len(CallPrelude)
    /\ SubSeq(program, 1, Len(CallPrelude)) = CallPrelude
    /\ program[Len(CallPrelude) + 1].expr = e

\* The values of the calls that have returned, in the order of their return
CallValues(log) == [i \in 1..Len(SelectSeqOf(log, "Call")) |-> SelectSeqOf(log, "Call")[i][2]]

\* The step executes the next top-level statement
IsRunStmt == pc = "run" /\ idx < Len(program) /\ idx' = idx + 1

\* The bindings of the caller after the statement: a statement that only
\* evaluates an expression leaves every binding as it was, and a let changes
\* no binding but its own
CallerEnvKept ==
    LET stmt == program[idx + 1]
    IN  /\ stmt.s \in {"Print", "ExprStmt", "Return", "FunctionDef"} => interp'.env = interp.env
        /\ stmt.s = "Let" =>
              /\ DOMAIN interp'.env \subseteq (DOMAIN interp.env) \cup {stmt.name}
              /\ \A n \in (DOMAIN interp.env) \ {stmt.name} : interp'.env[n] = interp.env[n]

\* What the calls of the call programs come to
CallOutcomes ==
    /\ CallExecuted(Call0(NameQ)) => FailedWith(<<"U", "n", "d", "e", "f", "i", "n", "e", "d", " ", "v", "a", "r", "i", "a", "b", "l", "e", ":", " ", "x">>)
    /\ CallExecuted(FunctionCall(NameP, <<Number(5), Var(NameA)>>)) =>
          FailedWith(<<"U", "n", "d", "e", "f", "i", "n", "e", "d", " ", "v", "a", "r", "i", "a", "b", "l", "e", ":", " ", "a">>)
    /\ CallExecuted(FunctionCall(NameS, <<Var(NameX)>>)) =>
          /\ Printed(interp.log)[1] = <<"3">>
          /\ CallValues(interp.log) = <<IntV(8)>>
          /\ interp.env[NameX] = IntV(2) /\ interp.env[NameY] = IntV(3)
          /\ NameZ \in DOMAIN interp.env => program[Len(CallPrelude) + 1].s = "Let"
    /\ CallExecuted(FunctionCall(NameS, <<Var(NameY)>>)) =>
          /\ Printed(interp.log)[1] = <<"4">>
          /\ CallValues(interp.log) = <<IntV(9)>>
    /\ CallExecuted(FunctionCall(NameP, <<Call0(NameG), Call0(NameH)>>)) =>
          /\ SubSeq(Printed(interp.log), 1, 3) = <<<<"a">>, <<"a">>, <<"b">>>>
          /\ CallValues(interp.log) = <<IntV(7), IntV(7), IntV(8), IntV(-1)>>
    /\ (Finished /\ CallExecuted(FunctionCall(NameS, <<Var(NameX)>>)) /\ Len(program) > idx) =>
          result.k = "Ok"

\* C12: a call runs the body in a fresh environment that holds exactly the
\* parameter bindings: the body cannot read a variable of the caller (the read
\* is the undefined-variable failure), the caller's environment is the same
\* after the call as before it even when the body declares or assigns a name
\* the caller also has, and the arguments are evaluated in the caller's
\* environment from left to right.
C12_CallsRunInFreshEnv == [][(IsRunStmt => CallerEnvKept) /\ CallOutcomes']_vars

\* print(s(x)) has run with x = 2 and y = 3 in the caller: the body assigned
\* its own x, declared its own y and returned 8, and the caller still has
\* x = 2 and y = 3
C12_Witness ==
    /\ Finished
    /\ program = CallPrelude \o <<PrintS(FunctionCall(NameS, <<Var(NameX)>>)),
                                  PrintS(Binary("Add", Var(NameX), Var(NameY)))>>
    /\ CallValues(interp.log) = <<IntV(8)>>
    /\ interp.env = Insert(Insert(<<>>, NameX, IntV(2)), NameY, IntV(3))
    /\ result = FinnOk(<<"8", NL, "3", NL, "5">>)

----------------------------------------------------------------------------
(* C13 *)

\* The activations that have returned to their caller, each with the events
\* it executed itself
EventsOf(log, callee) == SelectSeq(log, LAMBDA ev : ev.act = callee)

\* The value of the call is the payload of the first Return among the events
\* of its activation, the integer 0 when that Return carries no expression,
\* and the integer 0 when the activation executed no Return
ValueOfCall(log, call) ==
    LET own == EventsOf(log, call.arg[1])
        returns == {i \in 1..Len(own) : own[i].ev = "Return"}
        first == CHOOSE i \in returns : \A j \in returns : i <= j
    IN  IF returns = {} THEN call.arg[2] = IntV(0)
        ELSE IF IsNone(own[first].arg) THEN call.arg[2] = IntV(0)
        ELSE call.arg[2] = own[first].arg.v

\* C13: the value of a call is the payload of the first return executed in
\* the body; it is the integer 0 when the body ends without executing a
\* return and when the return executed has no expression.
C13_CallValue ==
    /\ \A j \in 1..Len(interp.log) :
          interp.log[j].ev = "Call" => ValueOfCall(interp.log, interp.log[j])
    /\ (CallExecuted(Call0(NameM)) /\ idx = Len(CallPrelude) + 1 /\ program[idx].s = "Print") =>
          PrintedOnly(<<"0">>)
    /\ (CallExecuted(Call0(NameR)) /\ idx = Len(CallPrelude) + 1 /\ program[idx].s = "Print") =>
          PrintedOnly(<<"0">>)
    /\ CallExecuted(Call0(NameH)) => CallValues(interp.log) = <<IntV(7), IntV(8)>>
    /\ (pc = "run" /\ idx = Len(Prelude) + 1 /\ SubSeq(program, 1, Len(Prelude)) = Prelude) =>
          /\ program[idx] = PrintS(FunctionCall(NameK, <<Number(1)>>)) =>
                CallValues(interp.log) = <<IntV(1)>>
          /\ program[idx] = PrintS(FunctionCall(NameK, <<Number(7)>>)) =>
                CallValues(interp.log) = <<IntV(5)>>
          /\ program[idx] = PrintS(Call0(NameF)) => CallValues(interp.log) = <<IntV(1)>>

\* print(m()), whose body ends without a return, has returned "0": the call
\* is in the history with the value 0 and its activation executed no Return
C13_Witness ==
    /\ Finished
    /\ program = CallPrelude \o <<PrintS(Call0(NameM))>>
    /\ CallValues(interp.log) = <<IntV(0)>>
    /\ \A i \in 1..Len(interp.log) : interp.log[i].ev # "Return"
    /\ result = FinnOk(<<"0">>)

----------------------------------------------------------------------------
(* C14 *)

\* The calls of the call programs that cannot be made, each with the message
\* of its failure
FatalCalls ==
    { <<FunctionCall(NameP, <<Call0(NameG)>>), <<"F", "u", "n", "c", "t", "i", "o", "n", " ", "p", " ", "e", "x", "p", "e", "c", "t", "s", " ", "2", " ", "a", "r", "g", "u", "m", "e", "n", "t", "s", ",", " ", "g", "o", "t", " ", "1">>>>,
      <<FunctionCall(NameP, <<Call0(NameG), Call0(NameH), Call0(NameG)>>),
        <<"F", "u", "n", "c", "t", "i", "o", "n", " ", "p", " ", "e", "x", "p", "e", "c", "t", "s", " ", "2", " ", "a", "r", "g", "u", "m", "e", "n", "t", "s", ",", " ", "g", "o", "t", " ", "3">>>>,
      <<FunctionCall(NameK, <<Call0(NameG), Call0(NameG)>>),
        <<"F", "u", "n", "c", "t", "i", "o", "n", " ", "k", " ", "e", "x", "p", "e", "c", "t", "s", " ", "1", " ", "a", "r", "g", "u", "m", "e", "n", "t", "s", ",", " ", "g", "o", "t", " ", "2">>>>,
      <<FunctionCall(NameS, <<>>), <<"F", "u", "n", "c", "t", "i", "o", "n", " ", "s", " ", "e", "x", "p", "e", "c", "t", "s", " ", "1", " ", "a", "r", "g", "u", "m", "e", "n", "t", "s", ",", " ", "g", "o", "t", " ", "0">>>>,
      <<FunctionCall(NameZ, <<Call0(NameG)>>), <<"U", "n", "d", "e", "f", "i", "n", "e", "d", " ", "f", "u", "n", "c", "t", "i", "o", "n", ":", " ", "z">>>> }

\* Nothing of a call has happened: no activation exists, no event but those
\* of the top-level statements before the call is in the history, nothing is
\* printed or buffered, and no binding has changed
NothingOfTheCall ==
    /\ interp.nact = 0
    /\ \A i \in 1..Len(interp.log) : interp.log[i].act = 0 /\ interp.log[i].ev \in {"Let", "FunctionDef"}
    /\ interp.output_buffer = <<>>
    /\ output = <<>>
    /\ interp.env = Insert(Insert(<<>>, NameX, IntV(2)), NameY, IntV(3))

\* C14: a call whose argument count differs from the parameter count is
\* fatal: no statement of the body is executed, no parameter is bound and the
\* call produces no output (its arguments are not evaluated either); a call
\* of a name that is not in the function table is fatal.
C14_BadCallsAreFatal ==
    /\ \A c \in FatalCalls :
          CallExecuted(c[1]) =>
              /\ FailedWith(c[2])
              /\ idx = Len(CallPrelude) + 1
              /\ NothingOfTheCall
    /\ (Len(program) = 4 /\ idx = 4 /\ program[4].s = "Print") =>
          /\ program[4].expr = FunctionCall(NameG, <<Number(1)>>) =>
                FailedWith(<<"F", "u", "n", "c", "t", "i", "o", "n", " ", "g", " ", "e", "x", "p", "e", "c", "t", "s", " ", "0", " ", "a", "r", "g", "u", "m", "e", "n", "t", "s", ",", " ", "g", "o", "t", " ", "1">>) /\ interp.nact = 0
          /\ program[4].expr = FunctionCall(NameK, <<>>) =>
                FailedWith(<<"U", "n", "d", "e", "f", "i", "n", "e", "d", " ", "f", "u", "n", "c", "t", "i", "o", "n", ":", " ", "k">>) /\ interp.nact = 0
          /\ program[4].expr = FunctionCall(NameUnexpectedHelper, <<>>) =>
                FailedWith(<<"U", "n", "d", "e", "f", "i", "n", "e", "d", " ", "f", "u", "n", "c", "t", "i", "o", "n", ":", " ", "U", "n", "e", "x", "p", "e", "c", "t", "e", "d", "H", "e", "l", "p", "e", "r">>) /\ interp.nact = 0

\* print(p(g(), h(), g())) has failed on the argument count with nothing of
\* g or of h executed
C14_Witness ==
    /\ Finished
    /\ program = CallPrelude \o <<PrintS(FunctionCall(NameP, <<Call0(NameG), Call0(NameH), Call0(NameG)>>))>>
    /\ result = RuntimeError(<<"F", "u", "n", "c", "t", "i", "o", "n", " ", "p", " ", "e", "x", "p", "e", "c", "t", "s", " ", "2", " ", "a", "r", "g", "u", "m", "e", "n", "t", "s", ",", " ", "g", "o", "t", " ", "3">>)
    /\ NothingOfTheCall

----------------------------------------------------------------------------
(* C15 *)

\* The names the top-level statements executed so far have declared
Declared == {program[i].name : i \in {j \in 1..idx : program[j].s = "Let"}}

\* The step executes a top-level assignment.  To an unbound name it fails and
\* binds nothing; to a bound name it changes the value of that name and of no
\* other, unless the evaluation of the expression fails.
AssignStep ==
    LET stmt == program[idx + 1]
        name == stmt.name
        bound == name \in DOMAIN interp.env
    IN  (IsRunStmt /\ stmt.s = "Assign") =>
            /\ ~bound =>
                  /\ pc' = "match" /\ result'.k = "Panicked"
                  /\ interp'.env = interp.env
                  /\ IsLiteral(stmt.expr) =>
                        result'.v = <<"C", "a", "n", "n", "o", "t", " ", "a", "s", "s", "i", "g", "n", " ", "t", "o", " ", "u", "n", "d", "e", "c", "l", "a", "r", "e", "d", " ", "v", "a", "r", "i", "a", "b", "l", "e", ":", " ">> \o name
            /\ bound =>
                  /\ DOMAIN interp'.env = DOMAIN interp.env
                  /\ \A n \in (DOMAIN interp.env) \ {name} : interp'.env[n] = interp.env[n]
                  /\ pc' # "run" => interp'.env = interp.env
                  /\ IsLiteral(stmt.expr) => pc' = "run"
                  /\ (pc' = "run" /\ stmt.expr = Number(9)) => interp'.env[name] = IntV(9)
                  /\ (pc' = "run" /\ stmt.expr = StrLiteral(<<"s">>)) => interp'.env[name] = StrV(<<"s">>)
                  /\ (pc' = "run" /\ stmt.expr.e = "Add" /\ program \in AssignPrograms) =>
                        interp'.env[name] = IntV(5)

\* C15: `x = e` for a name x with no binding in the current environment is
\* fatal and never creates the binding; when x is bound, the assignment
\* replaces its value and changes no other binding.
C15_AssignNeedsBinding ==
    [][AssignStep /\ (DOMAIN interp'.env \subseteq Declared')]_vars

\* let x = 2; let y = 3; z = 9; has failed on the assignment, with x and y
\* the only bindings
C15_Witness ==
    /\ Finished
    /\ program = << Let("Int", NameX, Number(2)), Let("Int", NameY, Number(3)),
                    Assign(NameZ, Number(9)) >>
    /\ result = RuntimeError(<<"C", "a", "n", "n", "o", "t", " ", "a", "s", "s", "i", "g", "n", " ", "t", "o", " ", "u", "n", "d", "e", "c", "l", "a", "r", "e", "d", " ", "v", "a", "r", "i", "a", "b", "l", "e", ":", " ", "z">>)
    /\ DOMAIN interp.env = {NameX, NameY}

----------------------------------------------------------------------------
(* C16 *)

\* The printed form of the literals of the operator programs
PrintedForm(atom) ==
    CASE atom = Number(0) -> <<"0">>
      [] atom = Number(3) -> <<"3">>
      [] atom = Bool(TRUE) -> <<"t", "r", "u", "e">>
      [] atom = Bool(FALSE) -> <<"f", "a", "l", "s", "e">>
      [] atom = StrLiteral(<<"s">>) -> <<"s">>
      [] atom = Double(3, 2) -> <<"1", ".", "5">>
      [] atom = Double(0, 1) -> <<"0">>
      [] atom = ArrayLiteral(<<Number(1), Number(2)>>) -> <<"[", "1", ",", " ", "2", "]">>

\* The printed sum of two of the double literals
PrintedDoubleSum(l, r) ==
    IF l = Double(3, 2) /\ r = Double(3, 2) THEN <<"3">>
    ELSE IF l = Double(0, 1) /\ r = Double(0, 1) THEN <<"0">>
    ELSE <<"1", ".", "5">>

\* The operator program that prints l + r for two literals has executed the
\* print
PrintedSum ==
    /\ Len(program) = 4 /\ idx = 4
    /\ program[4].s = "Print"
    /\ program[4].expr.e = "Add"
    /\ IsLiteral(program[4].expr.l) /\ IsLiteral(program[4].expr.r)

\* What print(l + r) comes to, with the sum of two doubles either their sum
\* or the type mismatch
SumTable(doubles_add) ==
    PrintedSum =>
        LET l == program[4].expr.l
            r == program[4].expr.r
        IN  IF l.e = "Number" /\ r.e = "Number" THEN PrintedOnly(IntToStr(l.n + r.n))
            ELSE IF l.e = "StrLiteral" \/ r.e = "StrLiteral"
            THEN PrintedOnly(PrintedForm(l) \o PrintedForm(r))
            ELSE IF l.e = "Double" /\ r.e = "Double" /\ doubles_add
            THEN PrintedOnly(PrintedDoubleSum(l, r))
            ELSE FailedWith(<<"U", "n", "s", "u", "p", "p", "o", "r", "t", "e", "d", " ", "a", "d", "d", "i", "t", "i", "o", "n", " ", "t", "y", "p", "e", "s">>)

\* C16 as amended: `+` yields the integer sum for two integers, the double
\* sum for two doubles, the concatenation for two strings, and, when exactly
\* one operand is a string, the concatenation in operand order of the string
\* with the printed form of the other operand (integer, boolean, double,
\* array); every other pairing (integer with double, boolean with boolean,
\* array with integer, ...) is a fatal type mismatch.
C16_AddWithDoubles == SumTable(TRUE)

\* C16 as stated: `+` yields the integer sum for two integers, the
\* concatenation for two strings and the stringifying concatenation next to
\* one string; every other pairing without a string, two doubles included, is
\* a fatal type mismatch.
C16_AddAsStated == SumTable(FALSE)

\* print(1.5 + 1.5) has returned "3"
C16_Witness ==
    /\ Finished
    /\ PrintedSum
    /\ program[4].expr.l = Double(3, 2)
    /\ program[4].expr.r = Double(3, 2)
    /\ result = FinnOk(<<"3">>)

----------------------------------------------------------------------------
(* C17 *)

\* The program that prints l == r or l != r for two literals has executed the
\* print
PrintedEquality ==
    /\ Len(program) = 4 /\ idx = 4
    /\ program[4].s = "Print"
    /\ program[4].expr.e \in {"Eq", "Neq"}
    /\ IsLiteral(program[4].expr.l) /\ IsLiteral(program[4].expr.r)

\* C17: `==` is structural equality of runtime values: two values of the
\* same variant are equal exactly when their payloads are equal (arrays: same
\* length and element-wise equal), `==` on operands of different variants is
\* false without failing, and `l != r` is always the negation of `l == r`.
\* Two literals denote the same value exactly when they are the same literal.
C17_StructuralEquality ==
    PrintedEquality =>
        LET e == program[4].expr
        IN  PrintedOnly(BoolText((e.l = e.r) = (e.e = "Eq")))

\* print([[1], 2] == [[3], 2]) has returned "false"
C17_Witness ==
    /\ Finished
    /\ PrintedEquality
    /\ program[4].expr = Binary("Eq", ArrayLiteral(<<ArrayLiteral(<<Number(1)>>), Number(2)>>),
                                      ArrayLiteral(<<ArrayLiteral(<<Number(3)>>), Number(2)>>))
    /\ result = FinnOk(<<"f", "a", "l", "s", "e">>)

----------------------------------------------------------------------------
(* C18 *)

\* The run of an index program whose index is outside the array [1, 2] has
\* ended
OutOfRangeRunEnded ==
    /\ Finished
    /\ Len(program) = 3
    /\ program[2].s = "Print" /\ program[2].expr.e = "Index"
    /\ program[2].expr.i \notin {Number(0), Number(1)}
    /\ program \in IndexPrograms

\* C18: out-of-range array access follows one policy applied symmetrically:
\* for the array y of length 2 and an index i with i < 0 or i >= 2, reading
\* y[i] and the indexed assignment y[i] = 9 have the same kind of outcome:
\* both yield the sentinel value, or both fail fatally.
C18_OnePolicyOutOfRange ==
    OutOfRangeRunEnded =>
        \/ /\ result.k = "Ok"
           /\ Len(Printed(interp.log)) = 2
           /\ Printed(interp.log)[1] = <<"I", "n", "d", "e", "x", " ", "o", "u", "t", " ", "o", "f", " ", "b", "o", "u", "n", "d", "s">>
        \/ /\ result.k # "Ok"
           /\ Printed(interp.log) = <<>>

----------------------------------------------------------------------------
(* C19 *)

\* The lines joined by a single newline, with none after the last
RECURSIVE JoinLines(_)
JoinLines(lines) ==
    IF lines = <<>> THEN <<>>
    ELSE IF Len(lines) = 1 THEN lines[1]
    ELSE lines[1] \o <<NL>> \o JoinLines(Tail(lines))

\* The program is a sequence of let and print statements over integer,
\* boolean and string literals and variables
IsLetPrintProgram ==
    \A i \in 1..Len(program) :
        /\ program[i].s \in {"Let", "Print"}
        /\ program[i].expr.e \in {"Number", "Bool", "StrLiteral", "Var"}

\* C19: for a program that is a sequence of let and print statements over
\* integer, boolean and string values, the result of run is exactly the
\* printed forms of the printed values, in order, joined by a single newline,
\* with no trailing newline: each printed string is reproduced unchanged,
\* including an empty string or a string that ends in whitespace printed
\* last.
C19_OutputIsThePrintedLines ==
    (Finished /\ IsLetPrintProgram /\ program \in PrintPrograms) =>
        result = FinnOk(JoinLines(Printed(interp.log)))

----------------------------------------------------------------------------
(* C20 *)

\* The calls of run_finn_code that have returned, the present one included
\* once it has returned
ReturnedRuns ==
    IF Finished THEN Append(runs, [source |-> source, result |-> result]) ELSE runs

\* C20: running run_finn_code twice on the same source, one run after the
\* other or with runs on other sources in between, yields identical results
\* (the same output text, or the same error kind and message): no variable
\* binding, function definition or buffered output of one run is visible to
\* another.
C20_RunsAreIndependent ==
    \A i \in 1..Len(ReturnedRuns) : \A j \in 1..Len(ReturnedRuns) :
        ReturnedRuns[i].source = ReturnedRuns[j].source =>
            ReturnedRuns[i].result = ReturnedRuns[j].result

\* `woof(x);` has failed on the undefined x, `let x = 5; x = x + 1; woof(x);`
\* has then returned "5", and `woof(x);` has failed again in the same way
C20_Witness ==
    /\ Finished
    /\ Len(runs) = 2
    /\ source = <<"w", "o", "o", "f", "(", "x", ")", ";">>
    /\ runs[1].source = source
    /\ runs[2] = [source |-> <<"l", "e", "t", " ", "x", " ", "=", " ", "5", ";", " ", "x", " ", "=", " ", "x", " ", "+", " ", "1", ";", " ", "w", "o", "o", "f", "(", "x", ")", ";">>, result |-> FinnOk(<<"5">>)]
    /\ result = RuntimeError(<<"U", "n", "d", "e", "f", "i", "n", "e", "d", " ", "v", "a", "r", "i", "a", "b", "l", "e", ":", " ", "x">>)
    /\ runs[1].result = result

----------------------------------------------------------------------------
(* C21 *)

\* The words that are keywords, each with the token the parser dispatches on
KeywordTokens ==
    { <<<<"l", "e", "t">>, "Let">>, <<<<"p", "r", "i", "n", "t">>, "Print">>, <<<<"w", "h", "i", "l", "e">>, "While">>,
      <<<<"f", "o", "r">>, "For">>, <<<<"i", "f">>, "If">>, <<<<"e", "l", "i", "f">>, "Elif">>, <<<<"e", "l", "s", "e">>, "Else">>,
      <<<<"f", "u", "n", "c", "t">>, "Funct">>, <<<<"r", "e", "t", "u", "r", "n">>, "Return">> }

\* The longest run of letters and digits of s that ends at position pos
RECURSIVE WordEndingAt(_, _)
WordEndingAt(s, pos) ==
    IF pos = 0 \/ ~IsAlphanumeric(s[pos]) THEN <<>>
    ELSE Append(WordEndingAt(s, pos - 1), s[pos])

\* The last call of next_token has read a word of a source made of words,
\* numbers and spaces: the lexer stands at the end of a run of letters and
\* digits that starts with a letter
WordLexed ==
    /\ pc = "lex"
    /\ ~IsNone(token)
    /\ \A i \in 1..Len(source) : IsAlphanumeric(source[i]) \/ source[i] = " "
    /\ lexer.position \in 1..Len(source)
    /\ IsAlphanumeric(source[lexer.position])
    /\ lexer.position < Len(source) => ~IsAlphanumeric(source[lexer.position + 1])
    /\ IsAlphabetic(WordEndingAt(source, lexer.position)[1])

\* C21: the lexer turns each of the words let, print, while, for, if, elif,
\* else, funct, return into its own keyword token, matched case-sensitively,
\* and every other word of a leading letter followed by letters and digits
\* into an identifier token that carries the word.
C21_KeywordTokens ==
    WordLexed =>
        LET word == WordEndingAt(source, lexer.position)
        IN  IF \E kw \in KeywordTokens : kw[1] = word
            THEN \E kw \in KeywordTokens : kw[1] = word /\ token.v = Tok(kw[2])
            ELSE token.v = TokV("Ident", word)

----------------------------------------------------------------------------
(* C22 *)

\* parse() has reached the end of the token stream toks
ParsedAll(toks) ==
    /\ pc = "parse"
    /\ parser.lexer.toks = toks
    /\ Is(parser, "EOF")
    /\ IsNone(parser.abort)

\* C22: an identifier at statement position starts an assignment if and only
\* if the token immediately after it is `=`, and an expression statement
\* otherwise: `x = 1;` is parsed as the assignment of 1 to x, and `x;` and
\* `x(1);` as expression statements.
C22_AssignmentIffAssignFollows ==
    /\ ParsedAll(<<Id, Tok("Assign"), One, Tok("Semicolon")>>) =>
          stmts = <<Assign(NameX, Number(1))>>
    /\ ParsedAll(<<Id, Tok("Semicolon")>>) => stmts = <<ExprStmt(Var(NameX))>>
    /\ ParsedAll(<<Id, Tok("LParen"), One, Tok("RParen"), Tok("Semicolon")>>) =>
          stmts = <<ExprStmt(FunctionCall(NameX, <<Number(1)>>))>>

----------------------------------------------------------------------------
(* C23 *)

RecoverySample ==
    Toks(<<"Let", "1", "x", "Semicolon", "While", "LParen", "x", "RParen", "LBrace",
           "Let", "1", "x", "Semicolon", "Print", "LParen", "x", "RParen", "Semicolon",
           "RBrace", "Print", "LParen", "1", "RParen", "Semicolon">>)

\* One turn of the loop of parse: a statement that fails leaves the list as it
\* was and the parser one token after the token the failure was detected at,
\* a statement that parses is appended to the list
RecoveryStep ==
    (pc = "parse" /\ ~Is(parser, "EOF") /\ IsNone(parser.abort)) =>
        LET stmt == parse_stmt(parser)
        IN  IF ~IsNone(stmt.P.abort) THEN stmts' = stmts
            ELSE IF IsNone(stmt.res)
            THEN /\ stmts' = stmts
                 /\ parser'.lexer.toks = parser.lexer.toks
                 /\ parser'.lexer.position = stmt.P.lexer.position + 1
                 /\ parser'.current = TokenAt(stmt.P.lexer, 1)
            ELSE /\ stmts' = Append(stmts, stmt.res.v)
                 /\ parser' = stmt.P

\* `let 1 x;` fails at the 1 and leaves the statement `x;`, at top level and
\* in the body of the while
RecoveredInOrder ==
    ParsedAll(RecoverySample) =>
        stmts = << ExprStmt(Var(NameX)),
                   While(Var(NameX), <<ExprStmt(Var(NameX)), PrintS(Var(NameX))>>),
                   PrintS(Number(1)) >>

\* C23: when a statement fails to parse, at top level or in a block body, the
\* parser goes on one token after the token the failure was detected at: the
\* tokens the failed statement consumed are not given back, nothing is skipped
\* up to a `;` or a `}`, and the statements parsed before and after the failed
\* one are kept in the order of the source.
C23_RecoveryOneToken == [][RecoveryStep]_vars /\ []RecoveredInOrder

C23_Witness ==
    /\ ParsedAll(RecoverySample)
    /\ Len(stmts) = 3
    /\ stmts[2].s = "While"
    /\ Len(stmts[2].body) = 2

----------------------------------------------------------------------------
(* C24 *)

UnclosedSamples ==
    { Toks(<<"While", "LParen", "x", "RParen", "LBrace", "x", "Semicolon", "Print",
             "LParen", "x">>),
      Toks(<<"Funct", "x", "LParen", "x", "Colon", "Int", "Comma">>),
      Toks(<<"For", "LParen", "Let", "x", "Assign", "1", "Semicolon", "x", "LessThan", "1",
             "Semicolon", "x", "Assign", "1", "RParen", "LBrace", "x", "LParen", "1",
             "Comma">>) }

\* A turn of the loop of parse consumes at least one token unless a panic
\* unwinds out of parse, and so does every statement that parses; as long as
\* the current token is not EOF there are tokens left to consume
ParseProgress ==
    (pc = "parse" /\ ~Is(parser, "EOF")) =>
        /\ parser.lexer.position <= Len(parser.lexer.toks)
        /\ \/ ~IsNone(parser'.abort)
           \/ parser'.lexer.position > parser.lexer.position
        /\ parse_stmt(parser).P.lexer.position >= parser.lexer.position
        /\ ~IsNone(parse_stmt(parser).res) =>
              parse_stmt(parser).P.lexer.position > parser.lexer.position

\* parse has returned
ParseReturned == pc = "run"

\* C24: parse() comes to an end on every finite token stream, and returns
\* with the current token equal to EOF: every turn of a loop consumes at least
\* one token or leaves the loop, also when EOF is reached inside an unclosed
\* block, parameter list or parenthesised expression.
C24_ParseTerminatesAtEOF ==
    /\ [][ParseProgress]_vars
    /\ [](ParseReturned => Is(parser, "EOF") /\ IsNone(parser.abort))

C24_Witness ==
    /\ ParseReturned
    /\ parser.lexer.toks \in UnclosedSamples
    /\ Is(parser, "EOF")
    /\ stmts = <<>>

----------------------------------------------------------------------------
(* C25 *)

\* C25: the binary operators bind, from the loosest to the tightest, in the
\* order or, and, equality, relational, additive, multiplicative, below them
\* the unary operators and then the primary and postfix expressions, and every
\* binary level associates to the left: `x + 1 * x` is Add(x, Mul(1, x)),
\* `-x * 1` is Mul(Neg(x), 1), `x - 1 + x` is Add(Sub(x, 1), x).
C25_Precedence ==
    (pc = "parse" /\ Is(parser, "EOF") /\ IsNone(parser.abort)) =>
        \A c \in ExprCases :
            parser.lexer.toks = PrintOf(c[1]) => stmts = <<PrintS(c[2])>>

C25_Witness ==
    /\ ParsedAll(PrintOf(<<"x", "Plus", "1", "Star", "x">>))
    /\ stmts = <<PrintS(Binary("Add", Var(NameX), Binary("Mul", Number(1), Var(NameX))))>>

----------------------------------------------------------------------------
(* C26 *)

\* One call of next_token
LexStep ==
    pc = "lex" =>
        /\ lexer'.position >= lexer.position
        /\ lexer'.input = lexer.input
        /\ pc' = "lex" => ~IsNone(token')
        /\ (token = Some(EOF) /\ pc' = "lex") => token' = Some(EOF)

\* C26: every call of next_token returns one token and never moves the cursor
\* backwards, and once a call has returned EOF every later call returns EOF.
C26_OneTokenPerCall == [][LexStep]_vars

C26_Witness ==
    /\ pc = "lex"
    /\ Len(source) = MaxLexLen
    /\ token = Some(EOF)
    /\ lexer.position >= Len(source) + MaxExtraCalls

----------------------------------------------------------------------------
(* C27 *)

\* The number of '.' in a text
RECURSIVE Dots(_)
Dots(text) ==
    IF text = <<>> THEN 0 ELSE (IF Head(text) = "." THEN 1 ELSE 0) + Dots(Tail(text))

\* A call of next_token at a digit: the characters it consumes are digits and
\* at most one '.', the literal ends where another character or a second '.'
\* follows, and it is an integer without a '.' and a double with one
NumberStep ==
    (pc = "lex" /\ pc' = "lex" /\ Peek(lexer) # None /\ IsDigit(Peek(lexer).v)) =>
        LET text == SubSeq(source, lexer.position + 1, lexer'.position)
            rest == Peek(lexer')
        IN  /\ \A i \in 1..Len(text) : IsDigit(text[i]) \/ text[i] = "."
            /\ Dots(text) <= 1
            /\ rest # None => /\ ~IsDigit(rest.v)
                              /\ rest.v = "." => Dots(text) = 1
            /\ Dots(text) = 0 => token'.v = TokV("Number", DigitsToNat(text, 0))
            /\ Dots(text) = 1 => token'.v = TokV("Double", ParseF64(text))

\* The tokens of `1.2.3`: the double 1.2, a token for the '.', the integer 3
OneTwoThree ==
    (pc = "lex" /\ source = <<"1", ".", "2", ".", "3">>) =>
        /\ lexer.position = 3 => token.v = TokV("Double", [n |-> 12, d |-> 10])
        /\ lexer.position = 4 => token.v = TokV("Unknown", ".")
        /\ lexer.position = 5 => token.v = TokV("Number", 3)
        /\ lexer.position \in {0, 3, 4} \cup (5..(5 + MaxExtraCalls))

\* C27: a numeric literal is a run of digits with at most one '.', an integer
\* without the '.' and a double with it; a second '.' ends the literal and is
\* left in the stream: `1.2.3` is the double 1.2, a token for '.', and the
\* integer 3.
C27_NumericLiteral == [][NumberStep]_vars /\ []OneTwoThree

C27_Witness ==
    /\ pc = "lex"
    /\ source = <<"1", ".", "2", ".", "3">>
    /\ lexer.position = 5
    /\ token = Some(TokV("Number", 3))

----------------------------------------------------------------------------
(* C28 *)

\* The index of the first '"' of s at or after index i, Len(s) + 1 without one
RECURSIVE QuoteFrom(_, _)
QuoteFrom(s, i) == IF i > Len(s) \/ s[i] = "\"" THEN i ELSE QuoteFrom(s, i + 1)

\* A call of next_token at a '"': the token carries the characters up to the
\* next '"' as they are, or all the remaining ones without a next '"', and
\* then the call after it returns EOF
StringStep ==
    LET open == SkipWhitespace(lexer).position + 1
        close == QuoteFrom(source, open + 1)
    IN  (pc = "lex" /\ open <= Len(source) /\ source[open] = "\"") =>
            /\ pc' = "lex"
            /\ token' = Some(TokV("StrLiteral", SubSeq(source, open + 1, close - 1)))
            /\ close <= Len(source) => lexer'.position = close
            /\ close > Len(source) =>
                  /\ lexer'.position = Len(source)
                  /\ next_token(lexer').ok
                  /\ next_token(lexer').tok = EOF

\* C28: a string literal token carries exactly the characters between the
\* quotes, with no escape processing; without a closing quote the token
\* carries every remaining character, no error or unknown token is produced,
\* and the next token is EOF.
C28_StringLiteral == [][StringStep]_vars

\* the unterminated literal of `woof("` newline `a b`
C28_Witness ==
    /\ pc = "lex"
    /\ source = <<"w", "o", "o", "f", "(", "\"">> \o <<NL>> \o <<"a", " ", "b">>
    /\ token = Some(TokV("StrLiteral", <<NL, "a", " ", "b">>))
    /\ lexer.position = Len(source)

\* the backslash of `"a\n"` is a character of the literal
C28_WitnessBackslash ==
    /\ pc = "lex"
    /\ token = Some(TokV("StrLiteral", <<"a", "\\", "n">>))

----------------------------------------------------------------------------
(* C29 *)

\* The statement with the non-boolean condition has been executed
CondExecuted ==
    /\ Len(program) = 2
    /\ program[1].s \in {"While", "For", "If"}
    /\ idx >= 1

\* C29: a condition of a while, for, if or elif that evaluates to a value that
\* is not a boolean is treated like false and raises no failure: the loop is
\* over or the branch is skipped (the else block runs where there is one), and
\* the execution goes on with the next statement.
C29_NonBooleanCondition ==
    CondExecuted =>
        LET skipped == IF program[1].s = "If" /\ ~IsNone(program[1].else_block)
                       THEN << <<"e">> >> ELSE <<>>
        IN  /\ result.k \notin {"Panicked", "ParseError", "RuntimeError"}
            /\ idx = 1 => Printed(interp.log) = skipped
            /\ idx = 2 => Printed(interp.log) = Append(skipped, <<"a">>)

C29_Witness ==
    /\ CondExecuted
    /\ program[1].s = "While"
    /\ program[1].cond = Number(1)
    /\ idx = 2
    /\ Printed(interp.log) = << <<"a">> >>

----------------------------------------------------------------------------
(* C30 *)

\* A print or an expression statement does nothing to the interpreter but
\* evaluate its expression: the variables and the functions stay as they were
EvalStep ==
    (pc = "run" /\ idx < Len(program) /\ program[idx + 1].s \in {"Print", "ExprStmt"}) =>
        /\ interp'.env = interp.env
        /\ interp'.functions = interp.functions

\* The program writes to y[i] and reads it afterwards
WriteRead(i) ==
    /\ Len(program) = 5
    /\ program[2] = ExprStmt(AssignIndex(Var(NameY), Number(i), Number(9)))

\* The written array is the value of the write, the array of y is the old one
CopyReturned ==
    /\ (WriteRead(0) /\ idx = 5) =>
          Printed(interp.log) = <<<<"[", "9", ",", " ", "2", "]">>, <<"1">>, <<"[", "1", ",", " ", "2", "]">>>>
    /\ (WriteRead(1) /\ idx = 5) =>
          Printed(interp.log) = <<<<"[", "1", ",", " ", "9", "]">>, <<"2">>, <<"[", "1", ",", " ", "2", "]">>>>

====
